---------------------------- MODULE Spec2Model ----------------------------
(***************************************************************************)
(* A model of AstroChop (dhruvhaldar/AstroChop): the universal-variable    *)
(* Lambert solver of src/src/lambert.py, the ephemeris of                  *)
(* src/src/ephemeris.py and the grid layer of src/src/plotter.py that      *)
(* calls both.                                                             *)
(*                                                                         *)
(* Numbers.  The program computes in IEEE-754 binary64.  The model keeps   *)
(* the structure of that format at a reduced width: a number is a          *)
(* fixed-point integer counting units of 1/Scale, finite values lie in     *)
(* -MaxMag..MaxMag, a result beyond that range overflows to an infinity,   *)
(* and NaN is a value of its own that every comparison rejects.  Results   *)
(* are rounded toward zero.  The sign of zero is not kept.                 *)
(*                                                                         *)
(* Arrays.  A numpy ndarray is a record [shape, data] with data in         *)
(* row-major order; broadcasting, boolean-mask indexing and the errors     *)
(* numpy raises on mismatched shapes are modelled by the operators of the  *)
(* array section.                                                          *)
(***************************************************************************)
EXTENDS Integers, Sequences, FiniteSets, TLC

(***************************************************************************)
(* Bounds of the number format.                                            *)
(***************************************************************************)
Scale == 1000
MaxMag == 1000000

PInf == MaxMag + 1
NInf == 0 - (MaxMag + 1)
NaN == MaxMag + 2

IsNaN(x) == x = NaN
IsInf(x) == x = PInf \/ x = NInf
IsFinite(x) == x >= 0 - MaxMag /\ x <= MaxMag

Abs(n) == IF n < 0 THEN 0 - n ELSE n
Sgn(n) == IF n < 0 THEN 0 - 1 ELSE IF n > 0 THEN 1 ELSE 0
Min2(a, b) == IF a < b THEN a ELSE b
Max2(a, b) == IF a > b THEN a ELSE b

\* Integer quotient rounded toward zero (d > 0).
TDiv(n, d) == IF n >= 0 THEN n \div d ELSE 0 - ((0 - n) \div d)

\* A finite result that leaves the representable range becomes an infinity.
Sat(n) == IF n > MaxMag THEN PInf ELSE IF n < 0 - MaxMag THEN NInf ELSE n

\* The literal q/d of the source, in units of 1/Scale.
Lit(q, d) == TDiv(q * Scale, d)

(***************************************************************************)
(* IEEE arithmetic on one number.                                          *)
(***************************************************************************)
FNeg(a) == IF IsNaN(a) THEN NaN ELSE 0 - a

FAbs(a) == IF IsNaN(a) THEN NaN ELSE Abs(a)

FAdd(a, b) ==
    IF IsNaN(a) \/ IsNaN(b) THEN NaN
    ELSE IF IsInf(a) /\ IsInf(b) THEN (IF a = b THEN a ELSE NaN)
    ELSE IF IsInf(a) THEN a
    ELSE IF IsInf(b) THEN b
    ELSE Sat(a + b)

FSub(a, b) == FAdd(a, FNeg(b))

\* |a| * |b| / Scale without leaving 32 bits: (m div S) * n + ((m mod S) * n) div S.
MulMag(m, n) == (m \div Scale) * n + ((m % Scale) * n) \div Scale

FMul(a, b) ==
    IF IsNaN(a) \/ IsNaN(b) THEN NaN
    ELSE IF IsInf(a) \/ IsInf(b)
         THEN (IF a = 0 \/ b = 0 THEN NaN
               ELSE IF Sgn(a) * Sgn(b) > 0 THEN PInf ELSE NInf)
    ELSE Sat(Sgn(a) * Sgn(b) * MulMag(Abs(a), Abs(b)))

\* |a| / |b| in units of 1/Scale without leaving 32 bits.
DivMag(m, n) == (m \div n) * Scale + ((m % n) * Scale) \div n

FDiv(a, b) ==
    IF IsNaN(a) \/ IsNaN(b) THEN NaN
    ELSE IF IsInf(a) /\ IsInf(b) THEN NaN
    ELSE IF IsInf(a) THEN (IF Sgn(a) * Sgn(b) >= 0 THEN PInf ELSE NInf)
    ELSE IF IsInf(b) THEN 0
    ELSE IF b = 0 THEN (IF a = 0 THEN NaN ELSE IF a > 0 THEN PInf ELSE NInf)
    ELSE IF Abs(a) \div Abs(b) > MaxMag \div Scale
         THEN (IF Sgn(a) * Sgn(b) > 0 THEN PInf ELSE NInf)
    ELSE Sat(Sgn(a) * Sgn(b) * DivMag(Abs(a), Abs(b)))

\* Comparisons: false as soon as one side is NaN.
FLt(a, b) == ~IsNaN(a) /\ ~IsNaN(b) /\ a < b
FLe(a, b) == ~IsNaN(a) /\ ~IsNaN(b) /\ a <= b
FGt(a, b) == ~IsNaN(a) /\ ~IsNaN(b) /\ a > b
FGe(a, b) == ~IsNaN(a) /\ ~IsNaN(b) /\ a >= b
FEq(a, b) == ~IsNaN(a) /\ ~IsNaN(b) /\ a = b

\* Largest r with r * r <= n (0 <= n < 2^30), one base-32 digit at a time:
\* the largest digit d with (base + d * step)^2 <= n.
SqrtDigit(n, base, step) ==
    CHOOSE d \in 0..31 :
        /\ (base + d * step) * (base + d * step) <= n
        /\ (d = 31 \/ (base + (d + 1) * step) * (base + (d + 1) * step) > n)

SqrtRefine(n, base, step) == base + step * SqrtDigit(n, base, step)

ISqrt(n) == IF n <= 0 THEN 0 ELSE SqrtRefine(n, SqrtRefine(n, SqrtRefine(n, 0, 1024), 32), 1)

\* np.sqrt: NaN below zero, sqrt(inf) = inf.
FSqrt(a) ==
    IF IsNaN(a) THEN NaN
    ELSE IF a = PInf THEN PInf
    ELSE IF a < 0 THEN NaN
    ELSE ISqrt(a * Scale)

(***************************************************************************)
(* The elementary functions numpy supplies, by their power series.         *)
(***************************************************************************)
One == Scale
Pi == Lit(355, 113)
TwoPi == 2 * Pi

\* Terms of the series kept.
SeriesTerms == 12

\* 1 + s*(w/d_1)*(1 + s*(w/d_2)*(... (1 + s*(w/d_n)))), d_k = (2k-1+off)*(2k+off),
\* summed from the innermost term (k = n = SeriesTerms) outwards; acc is the
\* value of the terms beyond k.  off = 0 gives cos (s = -1) and cosh (s = +1)
\* of sqrt(w); off = 1 gives sin(x)/x and sinh(x)/x.
RECURSIVE SeriesFrom(_, _, _, _, _)
SeriesFrom(w, k, s, off, acc) ==
    IF IsNaN(acc) \/ k = 0 THEN acc
    ELSE SeriesFrom(w, k - 1, s, off,
                    FAdd(One, FMul(FDiv(s * w, ((2 * k - 1 + off) * (2 * k + off)) * Scale),
                                   acc)))

SeriesTail(w, s, off) == SeriesFrom(w, SeriesTerms, s, off, One)

\* x reduced to -Pi..Pi.
Reduce(x) == LET m == x % TwoPi IN IF m > Pi THEN m - TwoPi ELSE m

FSin(x) ==
    IF IsNaN(x) \/ IsInf(x) THEN NaN
    ELSE LET r == Reduce(x) IN FMul(r, SeriesTail(FMul(r, r), 0 - 1, 1))

FCos(x) ==
    IF IsNaN(x) \/ IsInf(x) THEN NaN
    ELSE LET r == Reduce(x) IN SeriesTail(FMul(r, r), 0 - 1, 0)

\* Beyond this argument cosh and sinh exceed MaxMag/Scale.
HypLimit == 8 * Scale

FSinh(x) ==
    IF IsNaN(x) \/ IsInf(x) THEN x
    ELSE IF x > HypLimit THEN PInf
    ELSE IF x < 0 - HypLimit THEN NInf
    ELSE FMul(x, SeriesTail(FMul(x, x), 1, 1))

FCosh(x) ==
    IF IsNaN(x) THEN NaN
    ELSE IF IsInf(x) \/ Abs(x) > HypLimit THEN PInf
    ELSE SeriesTail(FMul(x, x), 1, 0)

(***************************************************************************)
(* numpy arrays.  An ndarray is [shape, data, err]: data holds the         *)
(* elements in row-major order; err names the exception an operation       *)
(* raised ("" when none), and every operation passes an argument's         *)
(* exception on, as the Python statement that raised would end the call.   *)
(***************************************************************************)
Arr(shape, data) == [shape |-> shape, data |-> data, err |-> ""]
Raise(kind) == [shape |-> <<>>, data |-> <<>>, err |-> kind]
Failed(a) == a.err # ""
Scal(x) == Arr(<<>>, <<x>>)
Ndim(a) == Len(a.shape)

RECURSIVE Prod(_)
Prod(s) == IF s = <<>> THEN 1 ELSE Head(s) * Prod(Tail(s))

Size(a) == Prod(a.shape)

\* <<F(1), ..., F(n)>>, built element by element.
RECURSIVE TabIn(_, _, _)
TabIn(F(_), lo, hi) ==
    IF lo > hi THEN <<>>
    ELSE IF lo = hi THEN <<F(lo)>>
    ELSE TabIn(F, lo, (lo + hi) \div 2) \o TabIn(F, (lo + hi) \div 2 + 1, hi)

Tab(n, F(_)) == TabIn(F, 1, n)

Fill(shape, x) == Arr(shape, Tab(Prod(shape), LAMBDA k : x))

\* s with leading 1s up to n dimensions.
PadShape(s, n) == [d \in 1..n |-> IF d <= n - Len(s) THEN 1 ELSE s[d - (n - Len(s))]]

\* numpy's broadcast of two shapes; <<-1>> when they are not compatible.
BShape(s1, s2) ==
    LET n == Max2(Len(s1), Len(s2))
        p1 == PadShape(s1, n)
        p2 == PadShape(s2, n)
    IN IF \E d \in 1..n : p1[d] # p2[d] /\ p1[d] # 1 /\ p2[d] # 1
       THEN <<0 - 1>>
       ELSE [d \in 1..n |-> IF p1[d] = 1 THEN p2[d] ELSE p1[d]]

BOk(s1, s2) == BShape(s1, s2) # <<0 - 1>>

\* Elements per step along dimension d of shape s.
Stride(s, d) == Prod(SubSeq(s, d + 1, Len(s)))

\* The multi-index (0-based) of element k (1-based) of shape s.
Unravel(k, s) == [d \in 1..Len(s) |-> ((k - 1) \div Stride(s, d)) % s[d]]

RECURSIVE RavelIn(_, _, _, _)
RavelIn(idx, s, off, d) ==
    IF d > Len(s) THEN 0
    ELSE (IF s[d] = 1 THEN 0 ELSE idx[d + off] * Stride(s, d)) + RavelIn(idx, s, off, d + 1)

\* The element (1-based) of an array of shape s that the multi-index idx of a
\* broadcast shape reads: aligned on the last dimension, a size-1 axis repeated.
Ravel(idx, s) == 1 + RavelIn(idx, s, Len(idx) - Len(s), 1)

\* The element of an array of shape s read at element k of the broadcast shape S.
BIdx(k, S, s) == Ravel(Unravel(k, S), s)

\* Elementwise unary and binary operations (ufuncs), the binary one broadcasting.
Map1(Op(_), a) ==
    IF Failed(a) THEN a
    ELSE Arr(a.shape, Tab(Size(a), LAMBDA k : Op(a.data[k])))

Map2(Op(_, _), a, b) ==
    IF Failed(a) THEN a
    ELSE IF Failed(b) THEN b
    ELSE IF ~BOk(a.shape, b.shape) THEN Raise("ValueError")
    ELSE LET S == BShape(a.shape, b.shape)
         IN Arr(S, Tab(Prod(S), LAMBDA k :
                      Op(a.data[BIdx(k, S, a.shape)], b.data[BIdx(k, S, b.shape)])))

Add(a, b) == Map2(FAdd, a, b)
Sub(a, b) == Map2(FSub, a, b)
Mul(a, b) == Map2(FMul, a, b)
\* A guarded division: 0 where the divisor is 0 or the quotient is undefined.
FSafeDiv(a, b) == IF b = 0 \/ IsNaN(FDiv(a, b)) THEN 0 ELSE FDiv(a, b)
SafeDiv(a, b) == Map2(FSafeDiv, a, b)
Div(a, b) == Map2(FDiv, a, b)
Neg(a) == Map1(FNeg, a)
Sqrt(a) == Map1(FSqrt, a)
Sin(a) == Map1(FSin, a)
Cos(a) == Map1(FCos, a)
Sinh(a) == Map1(FSinh, a)
Cosh(a) == Map1(FCosh, a)
AbsA(a) == Map1(FAbs, a)
IsNanA(a) == Map1(IsNaN, a)
Gt(a, b) == Map2(FGt, a, b)
Ge(a, b) == Map2(FGe, a, b)
\* A comparison that also holds when an operand is NaN.
FLtOrNaN(a, b) == IsNaN(a) \/ IsNaN(b) \/ a < b
LtOrNaN(a, b) == Map2(FLtOrNaN, a, b)
Lt(a, b) == Map2(FLt, a, b)
Le(a, b) == Map2(FLe, a, b)
Eq(a, b) == Map2(FEq, a, b)
BNot(x) == ~x
BOr(x, y) == x \/ y
BAnd(x, y) == x /\ y
Not(a) == Map1(BNot, a)
Or(a, b) == Map2(BOr, a, b)
And(a, b) == Map2(BAnd, a, b)

\* np.any
AnyTrue(m) == \E k \in 1..Size(m) : m.data[k]

\* The elements (1-based, in order) lo..hi of a boolean array that are True.
RECURSIVE TrueIn(_, _, _)
TrueIn(m, lo, hi) ==
    IF lo > hi THEN <<>>
    ELSE IF lo = hi THEN (IF m.data[lo] THEN <<lo>> ELSE <<>>)
    ELSE TrueIn(m, lo, (lo + hi) \div 2) \o TrueIn(m, (lo + hi) \div 2 + 1, hi)

TrueAt(m) == TrueIn(m, 1, Size(m))

\* a[m] is legal when m has no more dimensions than a and matches a's leading ones.
MaskFits(a, m) ==
    /\ Ndim(m) <= Ndim(a)
    /\ m.shape = SubSeq(a.shape, 1, Ndim(m))

\* a[m] for a boolean array m: the selected elements (blocks, when m has fewer
\* dimensions than a), as a new array of shape (count, ...).
MaskGet(a, m) ==
    IF Failed(a) THEN a
    ELSE IF Failed(m) THEN m
    ELSE IF ~MaskFits(a, m) THEN Raise("IndexError")
    ELSE LET sel == TrueAt(m)
             rest == SubSeq(a.shape, Ndim(m) + 1, Ndim(a))
             blk == Prod(rest)
         IN Arr(<<Len(sel)>> \o rest,
                Tab(Len(sel) * blk, LAMBDA k :
                   a.data[(sel[1 + ((k - 1) \div blk)] - 1) * blk + 1 + ((k - 1) % blk)]))

\* The position of k in the sequence sel (0 when absent).
PosIn(sel, k) ==
    IF \E i \in 1..Len(sel) : sel[i] = k
    THEN CHOOSE i \in 1..Len(sel) : sel[i] = k
    ELSE 0

\* a[m] = v: a with the selected elements replaced by those of v, which must
\* broadcast to the selection.
MaskSet(a, m, v) ==
    IF Failed(a) THEN a
    ELSE IF Failed(m) THEN m
    ELSE IF Failed(v) THEN v
    ELSE IF ~MaskFits(a, m) THEN Raise("IndexError")
    ELSE LET sel == TrueAt(m)
             rest == SubSeq(a.shape, Ndim(m) + 1, Ndim(a))
             blk == Prod(rest)
             S == <<Len(sel)>> \o rest
         IN IF BShape(S, v.shape) # S THEN Raise("ValueError")
            ELSE Arr(a.shape,
                     Tab(Size(a), LAMBDA k :
                        LET p == PosIn(sel, 1 + ((k - 1) \div blk))
                        IN IF p = 0 THEN a.data[k]
                           ELSE v.data[BIdx((p - 1) * blk + 1 + ((k - 1) % blk), S, v.shape)]))

\* Reductions over the last axis: np.sum(a, axis=-1), np.linalg.norm(a, axis=-1).
RECURSIVE SumRun(_, _, _)
SumRun(data, from, n) ==
    IF n = 0 THEN 0 ELSE FAdd(data[from], SumRun(data, from + 1, n - 1))

SumLast(a) ==
    IF Failed(a) THEN a
    ELSE IF Ndim(a) = 0 THEN Raise("AxisError")
    ELSE LET S == SubSeq(a.shape, 1, Ndim(a) - 1)
             n == a.shape[Ndim(a)]
         IN Arr(S, Tab(Prod(S), LAMBDA k : SumRun(a.data, (k - 1) * n + 1, n)))

NormLast(a) == Sqrt(SumLast(Mul(a, a)))

\* a[np.newaxis, ...]
NewAxisFirst(a) == IF Failed(a) THEN a ELSE Arr(<<1>> \o a.shape, a.data)

\* a[:, np.newaxis, ...]: an IndexError on a 0-d array.
NewAxisSecond(a) ==
    IF Failed(a) THEN a
    ELSE IF Ndim(a) = 0 THEN Raise("IndexError")
    ELSE Arr(<<a.shape[1], 1>> \o Tail(a.shape), a.data)

\* np.expand_dims(a, axis=-1)
ExpandLast(a) == IF Failed(a) THEN a ELSE Arr(a.shape \o <<1>>, a.data)

\* np.atleast_1d
AtLeast1d(a) == IF Failed(a) \/ Ndim(a) > 0 THEN a ELSE Arr(<<1>>, a.data)

\* a[0]
First(a) ==
    IF Failed(a) THEN a
    ELSE IF Ndim(a) = 0 \/ a.shape[1] = 0 THEN Raise("IndexError")
    ELSE LET rest == Tail(a.shape)
         IN Arr(rest, Tab(Prod(rest), LAMBDA k : a.data[k]))

Reverse(s) == [d \in 1..Len(s) |-> s[Len(s) + 1 - d]]

\* a.T: the axes reversed.
Transpose(a) ==
    IF Failed(a) THEN a
    ELSE LET S == Reverse(a.shape)
         IN Arr(S, Tab(Prod(S), LAMBDA k : a.data[Ravel(Reverse(Unravel(k, S)), a.shape)]))

(***************************************************************************)
(* src/src/lambert.py                                                      *)
(*                                                                         *)
(* A function body is a chain of statement groups over the record of its   *)
(* locals: each group reads the locals assigned before it and assigns its  *)
(* own, in the order of the source.                                        *)
(***************************************************************************)
\* The decimal literal q * 10^(-e) of the source.
RECURSIVE Shift(_, _)
Shift(n, e) == IF e = 0 THEN n ELSE Shift(TDiv(n, 10), e - 1)

Dec(q, e) == Shift(q * Scale, e)

SQRT2 == FSqrt(2 * One)
INV_3 == FDiv(One, 3 * One)

\* The literal 1e-12 that replaces a zero secant denominator: the smallest
\* positive number of the format.
Tiny == 1

\* A local that no statement has assigned yet.
Unset == Scal(0)

\* The exception of the first array of the sequence that carries one.
FirstErr(as) ==
    IF \A i \in 1..Len(as) : ~Failed(as[i]) THEN ""
    ELSE as[CHOOSE i \in 1..Len(as) :
               Failed(as[i]) /\ \A j \in 1..(i - 1) : ~Failed(as[j])].err

\* Horner's scheme: ((c[1] * zs + c[2]) * zs + ...) + c[n].
RECURSIVE Horner(_, _, _, _)
Horner(acc, c, i, zs) ==
    IF Failed(acc) \/ i > Len(c) THEN acc
    ELSE Horner(Add(Mul(acc, zs), Scal(c[i])), c, i + 1, zs)

RatioCoeffs ==
    <<Dec(224779, 12), Dec(624091, 11), Dec(161830, 9),
      Dec(379464, 8), Dec(75, 3), One>>

TermCoeffs ==
    <<Dec(968818, 13), FNeg(Dec(217014, 10)), Dec(260417, 8),
      FNeg(Dec(125, 3)), One>>

\* _compute_term_ratio(z), lines 67-71: term, ratio and the first mask.
TermRatioEnter(z) ==
    [z |-> z, term |-> Fill(z.shape, 0), ratio |-> Fill(z.shape, 0),
     large_pos |-> Ge(z, Scal(Dec(1, 1))), large_neg |-> Unset, is_small |-> Unset,
     sz |-> Unset, sa |-> Unset, ca |-> Unset, val_r |-> Unset, val_t |-> Unset]

\* 1. Large positive regime (z >= 0.1): half-angle closed form with sin, cos.
LargePosRoot(t) ==
    IF ~AnyTrue(t.large_pos) THEN t
    ELSE [t EXCEPT !.sz = Sqrt(MaskGet(t.z, t.large_pos))]

LargePosTrig(t) ==
    IF ~AnyTrue(t.large_pos) THEN t
    ELSE [t EXCEPT !.sa = Sin(Mul(t.sz, Scal(Dec(5, 1)))),
                   !.ca = Cos(Mul(t.sz, Scal(Dec(5, 1))))]

LargePosStore(t) ==
    IF ~AnyTrue(t.large_pos) THEN t
    ELSE [t EXCEPT
            !.term = MaskSet(t.term, t.large_pos, Mul(Scal(FNeg(SQRT2)), t.ca)),
            !.ratio = MaskSet(t.ratio, t.large_pos,
                              Div(Sub(t.sz, Mul(Mul(Scal(2 * One), t.sa), t.ca)),
                                  Mul(Scal(FMul(2 * One, SQRT2)),
                                      Mul(Mul(t.sa, t.sa), t.sa))))]

\* 2. Large negative regime (z <= -0.1): the same with sinh, cosh of sqrt(-z)/2.
LargeNegMaskOpen(t) == [t EXCEPT !.large_neg = Lt(t.z, Scal(FNeg(Dec(1, 1))))]
LargeNegMask(t) == [t EXCEPT !.large_neg = Le(t.z, Scal(FNeg(Dec(1, 1))))]

LargeNegRoot(t) ==
    IF ~AnyTrue(t.large_neg) THEN t
    ELSE [t EXCEPT !.sz = Sqrt(Neg(MaskGet(t.z, t.large_neg)))]

LargeNegTrig(t) ==
    IF ~AnyTrue(t.large_neg) THEN t
    ELSE [t EXCEPT !.sa = Sinh(Mul(t.sz, Scal(Dec(5, 1)))),
                   !.ca = Cosh(Mul(t.sz, Scal(Dec(5, 1))))]

LargeNegStore(t) ==
    IF ~AnyTrue(t.large_neg) THEN t
    ELSE [t EXCEPT
            !.term = MaskSet(t.term, t.large_neg, Mul(Scal(FNeg(SQRT2)), t.ca)),
            !.ratio = MaskSet(t.ratio, t.large_neg,
                              Div(Sub(Mul(Mul(Scal(2 * One), t.sa), t.ca), t.sz),
                                  Mul(Scal(FMul(2 * One, SQRT2)),
                                      Mul(Mul(t.sa, t.sa), t.sa))))]

\* 3. Small regime: everything that is in neither large regime (z = 0 and a
\* NaN z included), by the two polynomials.
SmallMask(t) == [t EXCEPT !.is_small = Not(Or(t.large_pos, t.large_neg))]

SmallPolys(t) ==
    IF ~AnyTrue(t.is_small) THEN t
    ELSE [t EXCEPT
            !.val_r = Horner(Scal(RatioCoeffs[1]), RatioCoeffs, 2, MaskGet(t.z, t.is_small)),
            !.val_t = Horner(Scal(TermCoeffs[1]), TermCoeffs, 2, MaskGet(t.z, t.is_small))]

SmallStore(t) ==
    IF ~AnyTrue(t.is_small) THEN t
    ELSE [t EXCEPT
            !.ratio = MaskSet(t.ratio, t.is_small, Mul(Scal(FMul(SQRT2, INV_3)), t.val_r)),
            !.term = MaskSet(t.term, t.is_small, Mul(Scal(FNeg(SQRT2)), t.val_t))]

\* _compute_term_ratio(z): its locals at the return; .term and .ratio are
\* what it returns.
ComputeTermRatio(z) ==
    IF Failed(z) THEN [term |-> z, ratio |-> z]
    ELSE SmallStore(SmallPolys(SmallMask(
         LargeNegStore(LargeNegTrig(LargeNegRoot(LargeNegMask(
         LargePosStore(LargePosTrig(LargePosRoot(TermRatioEnter(z)))))))))))

\* _compute_t_internal, lines 151-158: term, ratio, y and the NaN-filled result.
TimeEnter(z_vals, r_sum, A, inv_sqrt_mu, tr) ==
    [A |-> A, inv_sqrt_mu |-> inv_sqrt_mu, ratio |-> tr.ratio,
     y_val |-> Add(r_sum, Mul(A, tr.term)), valid |-> Unset,
     t_val |-> Fill(z_vals.shape, NaN), y_v |-> Unset, rat_v |-> Unset, A_v |-> Unset]

\* valid = y_val > 0
TimeValid(c) == [c EXCEPT !.valid = Gt(c.y_val, Scal(0))]

\* Lines 161-173: the valid elements of y, ratio and (when it is an array) A.
TimeSelect(c) ==
    IF Failed(c.valid) THEN c
    ELSE IF ~AnyTrue(c.valid) THEN c
    ELSE [c EXCEPT !.y_v = MaskGet(c.y_val, c.valid),
                   !.rat_v = MaskGet(c.ratio, c.valid),
                   !.A_v = IF c.A.shape # <<>> THEN MaskGet(c.A, c.valid) ELSE c.A]

\* Lines 176-177: t = sqrt(y) * (y * ratio + A) / sqrt(mu) on the valid elements.
TimeStore(c) ==
    IF Failed(c.valid) THEN [c EXCEPT !.t_val = c.valid]
    ELSE IF ~AnyTrue(c.valid) THEN c
    ELSE [c EXCEPT !.t_val = MaskSet(c.t_val, c.valid,
                                     Mul(Mul(Sqrt(c.y_v), Add(Mul(c.y_v, c.rat_v), c.A_v)),
                                         c.inv_sqrt_mu))]

\* _compute_t_internal(z_vals, r_sum, A, inv_sqrt_mu): the time of flight at
\* each z, NaN wherever y = r_sum + A*term is not > 0.
ComputeTInternal(z_vals, r_sum, A, inv_sqrt_mu) ==
    IF Failed(z_vals) THEN z_vals
    ELSE TimeStore(TimeSelect(TimeValid(
             TimeEnter(z_vals, r_sum, A, inv_sqrt_mu, ComputeTermRatio(z_vals))))).t_val

\* np.clip on one number: NaN stays NaN.
FClip(x, lo, hi) == IF IsNaN(x) THEN NaN ELSE Max2(lo, Min2(hi, x))
ClipUnit(x) == FClip(x, 0 - One, One)

\* r2_vec[np.newaxis, :]: the slice needs one dimension at least.
NewAxisSlice(a) ==
    IF Failed(a) THEN a
    ELSE IF Ndim(a) = 0 THEN Raise("IndexError")
    ELSE NewAxisFirst(a)

\* The locals of lambert() at its entry: the arguments as arrays (lines
\* 199-204), nothing else assigned.  exc names the exception a statement
\* raised; brk is set when the loop is left by `break`.
LambertFrame(args) ==
    [r1_vec |-> args.r1_vec, r2_vec |-> args.r2_vec, dt |-> args.dt, mu |-> args.mu,
     tm |-> args.tm, tol |-> args.tol, max_iter |-> args.max_iter,
     was_scalar |-> FALSE,
     r1 |-> Unset, r2 |-> Unset, dot_prod |-> Unset, cos_dnu |-> Unset, A |-> Unset,
     r_sum |-> Unset, inv_sqrt_mu |-> Unset,
     z0 |-> Unset, z1 |-> Unset, t0 |-> Unset, t1 |-> Unset, converged |-> Unset,
     diff |-> Unset, just_converged |-> Unset, active |-> Unset,
     z0_a |-> Unset, z1_a |-> Unset, t0_a |-> Unset, t1_a |-> Unset, diff_a |-> Unset,
     denom_sec |-> Unset, z_new_a |-> Unset, r_sum_a |-> Unset, A_a |-> Unset,
     t_val_a |-> Unset, nan_mask_sub |-> Unset, z0_rec |-> Unset, full_nan_mask |-> Unset,
     y |-> Unset, f |-> Unset, g |-> Unset, g_dot |-> Unset,
     v1_vec |-> Unset, v2_vec |-> Unset, v1 |-> Unset, v2 |-> Unset,
     brk |-> FALSE, exc |-> ""]

\* The statement group that has just run raised if one of the arrays it
\* assigned carries an exception: the call ends there.
Raising(f) ==
    IF f.exc # "" THEN f
    ELSE [f EXCEPT !.exc =
            FirstErr(<<f.r1_vec, f.r2_vec, f.dt, f.r1, f.r2, f.dot_prod, f.cos_dnu, f.A,
                       f.r_sum, f.z0, f.z1, f.t0, f.t1, f.converged,
                       f.diff, f.just_converged, f.active,
                       f.z0_a, f.z1_a, f.t0_a, f.t1_a, f.diff_a, f.denom_sec, f.z_new_a,
                       f.r_sum_a, f.A_a, f.t_val_a, f.nan_mask_sub, f.z0_rec,
                       f.full_nan_mask, f.y, f.f, f.g, f.g_dot,
                       f.v1_vec, f.v2_vec, f.v1, f.v2>>)]

\* Lines 205-209: a 1-D r1_vec makes the call a batch of one.
Promote(f) ==
    IF Ndim(f.r1_vec) # 1 THEN f
    ELSE [f EXCEPT !.r1_vec = NewAxisFirst(f.r1_vec),
                   !.r2_vec = NewAxisSlice(f.r2_vec),
                   !.dt = AtLeast1d(f.dt),
                   !.was_scalar = TRUE]

\* Lines 212-215: the magnitudes and the dot product.
Norms(f) ==
    IF f.exc # "" THEN f
    ELSE [f EXCEPT !.r1 = NormLast(f.r1_vec),
                   !.r2 = NormLast(f.r2_vec),
                   !.dot_prod = SumLast(Mul(f.r1_vec, f.r2_vec))]

\* Lines 218-228: cos(dnu) clipped to [-1, 1], r1 + r2 and 1/sqrt(mu).
Geometry(f) ==
    IF f.exc # "" THEN f
    ELSE [f EXCEPT !.cos_dnu = Map1(ClipUnit, Div(f.dot_prod, Mul(f.r1, f.r2))),
                   !.r_sum = Add(f.r1, f.r2),
                   !.inv_sqrt_mu = Scal(FDiv(One, FSqrt(f.mu)))]

\* Line 222: A = tm * sqrt(r1 * r2 * (1 + cos_dnu)).
TransferA(f) ==
    IF f.exc # "" THEN f
    ELSE [f EXCEPT !.A = Mul(Scal(f.tm * One),
                             Sqrt(Mul(Mul(f.r1, f.r2), Add(Scal(One), f.cos_dnu))))]

\* Line 234 with np.zeros_like for np.ones_like.
SeedsBothZero(f) ==
    IF f.exc # "" THEN f
    ELSE [f EXCEPT !.z0 = Fill(f.dt.shape, 0),
                   !.z1 = Fill(f.dt.shape, 0),
                   !.converged = Fill(f.dt.shape, FALSE)]

\* Lines 233-242: the seeds z0 = 0, z1 = 1 and the convergence mask, of dt's shape.
Seeds(f) ==
    IF f.exc # "" THEN f
    ELSE [f EXCEPT !.z0 = Fill(f.dt.shape, 0),
                   !.z1 = Fill(f.dt.shape, One),
                   !.converged = Fill(f.dt.shape, FALSE)]

\* Lines 238-239: the times of flight at the seeds.
SeedTimes(f) ==
    IF f.exc # "" THEN f
    ELSE [f EXCEPT !.t0 = ComputeTInternal(f.z0, f.r_sum, f.A, f.inv_sqrt_mu),
                   !.t1 = ComputeTInternal(f.z1, f.r_sum, f.A, f.inv_sqrt_mu)]

\* lambert(), from its entry to the loop.
LambertEnter(args) ==
    Raising(SeedTimes(Raising(Seeds(Raising(TransferA(Raising(Geometry(
    Raising(Norms(Raising(Promote(LambertFrame(args)))))))))))))

\* converged |= just_converged: in place, so the result must keep its shape.
OrInPlace(a, b, r) ==
    IF Failed(r) \/ r.shape = a.shape THEN r ELSE Raise("ValueError")

\* Lines 245-250: the residual and the convergence test |t1 - dt| < tol.
ConvergenceTest(f) ==
    [f EXCEPT !.diff = Sub(f.t1, f.dt),
              !.just_converged = Lt(AbsA(Sub(f.t1, f.dt)), Scal(f.tol))]

\* Line 251
MarkConverged(f) ==
    IF f.exc # "" THEN f
    ELSE [f EXCEPT !.converged =
            OrInPlace(f.converged, f.just_converged, Or(f.converged, f.just_converged))]

\* An active set that holds every element, converged or not.
AllActive(converged) == Map1(LAMBDA x : TRUE, converged)

\* The active set of one pass: the elements not converged.
ActiveOf(converged) == Not(converged)

\* Lines 254-255 without the break of lines 256-257.
SelectActiveNoBreak(f) ==
    IF f.exc # "" THEN f
    ELSE [f EXCEPT !.active = ActiveOf(f.converged), !.brk = FALSE]

\* Lines 254-257: the active set; the loop is left when it is empty.
SelectActive(f) ==
    IF f.exc # "" THEN f
    ELSE [f EXCEPT !.active = ActiveOf(f.converged),
                   !.brk = ~AnyTrue(ActiveOf(f.converged))]

\* Lines 260-264 and 279-280: the active elements of the state and geometry.
Gather(f) ==
    IF f.exc # "" \/ f.brk THEN f
    ELSE [f EXCEPT !.z0_a = MaskGet(f.z0, f.active),
                   !.z1_a = MaskGet(f.z1, f.active),
                   !.t0_a = MaskGet(f.t0, f.active),
                   !.t1_a = MaskGet(f.t1, f.active),
                   !.diff_a = MaskGet(f.diff, f.active),
                   !.r_sum_a = MaskGet(f.r_sum, f.active),
                   !.A_a = MaskGet(f.A, f.active)]

\* Lines 266-267 on the numbers of an unpromoted scalar call: a float does
\* not support the item assignment of line 267.
DenominatorOfFloats(f) ==
    IF f.exc # "" \/ f.brk THEN f
    ELSE IF f.was_scalar THEN [f EXCEPT !.denom_sec = Raise("TypeError")]
    ELSE [f EXCEPT !.denom_sec = MaskSet(Sub(f.t1_a, f.t0_a),
                                         Eq(Sub(f.t1_a, f.t0_a), Scal(0)),
                                         Scal(Tiny))]

\* Lines 266-267: the secant denominator, a zero replaced by 1e-12.
Denominator(f) ==
    IF f.exc # "" \/ f.brk THEN f
    ELSE [f EXCEPT !.denom_sec = MaskSet(Sub(f.t1_a, f.t0_a),
                                         Eq(Sub(f.t1_a, f.t0_a), Scal(0)),
                                         Scal(Tiny))]

\* Lines 269-270: z_new = z1 - diff * (z1 - z0) / denom.
SecantUpdate(f) ==
    IF f.exc # "" \/ f.brk THEN f
    ELSE [f EXCEPT !.z_new_a = Add(f.z1_a, Div(Mul(Neg(f.diff_a), Sub(f.z1_a, f.z0_a)),
                                               f.denom_sec))]

\* Line 282: the time of flight at the new z.
Evaluate(f) ==
    IF f.exc # "" \/ f.brk THEN f
    ELSE [f EXCEPT !.t_val_a = ComputeTInternal(f.z_new_a, f.r_sum_a, f.A_a, f.inv_sqrt_mu)]

\* Lines 273-275 and 283: the stores into the active elements.
Store(f) ==
    IF f.exc # "" \/ f.brk THEN f
    ELSE [f EXCEPT !.z0 = MaskSet(f.z0, f.active, f.z1_a),
                   !.t0 = MaskSet(f.t0, f.active, f.t1_a),
                   !.z1 = MaskSet(f.z1, f.active, f.z_new_a),
                   !.t1 = MaskSet(f.t1, f.active, f.t_val_a)]

\* One pass of the secant loop up to the store `t1[active] = t_val_a`.
LambertStep(f) ==
    Raising(Store(Raising(Evaluate(Raising(SecantUpdate(Raising(Denominator(
    Raising(Gather(Raising(SelectActive(Raising(MarkConverged(
    Raising(ConvergenceTest(f))))))))))))))))

\* Lines 286-310: which active elements got a NaN time of flight.
RecoverMasks(f) ==
    IF f.exc # "" \/ f.brk THEN f
    ELSE [f EXCEPT !.nan_mask_sub = IsNanA(f.t_val_a),
                   !.z0_rec = MaskGet(f.z0_a, IsNanA(f.t_val_a)),
                   !.full_nan_mask = And(f.active, IsNanA(f.t1))]

\* A recovery to z0_rec, the z0 (and t0) the elements had before the step.
RecoverToOlder(f) ==
    IF f.exc # "" \/ f.brk THEN f
    ELSE IF ~AnyTrue(f.nan_mask_sub) \/ ~AnyTrue(f.full_nan_mask) THEN f
    ELSE [f EXCEPT !.z1 = MaskSet(f.z1, f.full_nan_mask, f.z0_rec),
                   !.t1 = MaskSet(f.t1, f.full_nan_mask, MaskGet(f.t0_a, f.nan_mask_sub))]

\* A recovery that sends every active element back when one of them failed.
RecoverAllActive(f) ==
    IF f.exc # "" \/ f.brk THEN f
    ELSE IF ~AnyTrue(f.nan_mask_sub) \/ ~AnyTrue(f.full_nan_mask) THEN f
    ELSE [f EXCEPT !.z1 = MaskSet(f.z1, f.active, MaskGet(f.z0, f.active)),
                   !.t1 = MaskSet(f.t1, f.active, MaskGet(f.t0, f.active))]

\* Lines 312-317: z1 and t1 of those elements go back to z0 and t0, which
\* hold the values from before the step.
RecoverStore(f) ==
    IF f.exc # "" \/ f.brk THEN f
    ELSE IF ~AnyTrue(f.nan_mask_sub) \/ ~AnyTrue(f.full_nan_mask) THEN f
    ELSE [f EXCEPT !.z1 = MaskSet(f.z1, f.full_nan_mask, MaskGet(f.z0, f.full_nan_mask)),
                   !.t1 = MaskSet(f.t1, f.full_nan_mask, MaskGet(f.t0, f.full_nan_mask))]

\* The recovery that ends a pass.
Recover(f) == Raising(RecoverStore(Raising(RecoverMasks(f))))

\* One whole pass of the secant loop over the locals f.
LambertPass(f) == Recover(LambertStep(f))

\* y at z0, the point before the last one.
ReturnYAtZ0(f) ==
    [f EXCEPT !.y = Add(Add(f.r1, f.r2), Mul(f.A, ComputeTermRatio(f.z0).term))]

\* Lines 320-324: y at the final z.
ReturnY(f) ==
    [f EXCEPT !.y = Add(Add(f.r1, f.r2), Mul(f.A, ComputeTermRatio(f.z1).term))]

\* Lines 328-330: the Lagrange coefficients.
ReturnFG(f) ==
    IF f.exc # "" THEN f
    ELSE [f EXCEPT !.f = Sub(Scal(One), Div(f.y, f.r1)),
                   !.g = Mul(f.A, Sqrt(Div(f.y, Scal(f.mu)))),
                   !.g_dot = Sub(Scal(One), Div(f.y, f.r2))]

\* Lines 333-338: the velocities.
ReturnV(f) ==
    IF f.exc # "" THEN f
    ELSE [f EXCEPT
            !.v1_vec = Div(Sub(f.r2_vec, Mul(ExpandLast(f.f), f.r1_vec)), ExpandLast(f.g)),
            !.v2_vec = Div(Sub(Mul(ExpandLast(f.g_dot), f.r2_vec), f.r1_vec), ExpandLast(f.g))]

\* Lines 340-343: a scalar call gets the single row back.
ReturnOut(f) ==
    IF f.exc # "" THEN f
    ELSE [f EXCEPT !.v1 = IF f.was_scalar THEN First(f.v1_vec) ELSE f.v1_vec,
                   !.v2 = IF f.was_scalar THEN First(f.v2_vec) ELSE f.v2_vec]

\* lambert(), from `z = z1` to its return: .v1 and .v2 are what it returns.
LambertReturn(f) ==
    IF f.exc # "" THEN f
    ELSE Raising(ReturnOut(Raising(ReturnV(Raising(ReturnFG(Raising(ReturnY(f))))))))

\* The secant loop from pass number `it` on: `for _ in range(max_iter)`.
RECURSIVE LambertLoop(_, _)
LambertLoop(f, it) ==
    IF it >= f.max_iter \/ f.brk \/ f.exc # "" THEN f
    ELSE LambertLoop(LambertPass(f), it + 1)

\* A whole call of lambert(): its locals at the return (or at the raise).
LambertCall(args) == LambertReturn(LambertLoop(LambertEnter(args), 0))

(***************************************************************************)
(* src/src/ephemeris.py                                                    *)
(*                                                                         *)
(* Lengths are in AU and times in the unit that makes MU_SUN one, so that  *)
(* the numbers fit the format; Julian dates are counted from J2000.        *)
(***************************************************************************)
MU_SUN == One
AU == One
J2000 == 0

\* np.radians
FRadians(x) == IF ~IsFinite(x) THEN x ELSE TDiv(x * 355, 113 * 180)
Radians(a) == Map1(FRadians, a)

\* np.array([a, b, c]) of three arrays of one shape: a new first axis.
Stack3(a, b, c) ==
    IF Failed(a) THEN a
    ELSE IF Failed(b) THEN b
    ELSE IF Failed(c) THEN c
    ELSE IF a.shape # b.shape \/ a.shape # c.shape THEN Raise("ValueError")
    ELSE Arr(<<3>> \o a.shape, a.data \o b.data \o c.data)

\* a @ b for a 2-D a and a 1-D or 2-D b.
MatMul(a, b) ==
    IF Failed(a) THEN a
    ELSE IF Failed(b) THEN b
    ELSE IF Ndim(a) # 2 \/ Ndim(b) \notin {1, 2} \/ a.shape[2] # b.shape[1]
         THEN Raise("ValueError")
    ELSE Arr(<<a.shape[1]>> \o Tail(b.shape),
             Tab(a.shape[1] * Prod(Tail(b.shape)), LAMBDA k :
                 SumRun([j \in 1..a.shape[2] |->
                            FMul(a.data[((k - 1) \div Prod(Tail(b.shape))) * a.shape[2] + j],
                                 b.data[(j - 1) * Prod(Tail(b.shape))
                                        + 1 + ((k - 1) % Prod(Tail(b.shape)))])],
                        1, a.shape[2])))

\* The elements dictionaries (lines 35-56), in degrees and AU.
EarthElements ==
    [a |-> Dec(1000000, 6), e |-> Dec(16710, 6), i |-> Dec(5, 5),
     O |-> 0 - Dec(112606, 4), w |-> Dec(1029472, 4), L |-> Dec(1004644, 4),
     n |-> Dec(985609, 6)]
MarsElements ==
    [a |-> Dec(1523662, 6), e |-> Dec(93412, 6), i |-> Dec(185061, 5),
     O |-> Dec(495785, 4), w |-> Dec(336041, 3), M0 |-> Dec(19412, 3),
     n |-> Dec(524039, 6)]
W_BAR == Dec(336041, 3)

\* The `elif body_name == 'mars'` of line 67 as a plain `else`.
EphEnterElseMars(body_name, jd) ==
    IF body_name = "earth" THEN
        [d |-> Sub(jd, Scal(J2000)), exc |-> "",
         M |-> Radians(Add(Scal(FSub(FSub(EarthElements.L, EarthElements.w), EarthElements.O)),
                           Mul(Scal(EarthElements.n), Sub(jd, Scal(J2000))))),
         a |-> FMul(EarthElements.a, AU), e |-> EarthElements.e,
         i |-> FRadians(EarthElements.i), O |-> FRadians(EarthElements.O),
         w |-> FRadians(EarthElements.w)]
    ELSE
        [d |-> Sub(jd, Scal(J2000)), exc |-> "",
         M |-> Radians(Add(Scal(MarsElements.M0),
                           Mul(Scal(MarsElements.n), Sub(jd, Scal(J2000))))),
         a |-> FMul(MarsElements.a, AU), e |-> MarsElements.e,
         i |-> FRadians(MarsElements.i), O |-> FRadians(MarsElements.O),
         w |-> FRadians(FSub(W_BAR, MarsElements.O))]

\* Lines 30 and 58-80: the day count and the elements of the body.
EphEnter(body_name, jd) ==
    IF body_name = "earth" THEN
        [d |-> Sub(jd, Scal(J2000)), exc |-> "",
         M |-> Radians(Add(Scal(FSub(FSub(EarthElements.L, EarthElements.w), EarthElements.O)),
                           Mul(Scal(EarthElements.n), Sub(jd, Scal(J2000))))),
         a |-> FMul(EarthElements.a, AU), e |-> EarthElements.e,
         i |-> FRadians(EarthElements.i), O |-> FRadians(EarthElements.O),
         w |-> FRadians(EarthElements.w)]
    ELSE IF body_name = "mars" THEN
        [d |-> Sub(jd, Scal(J2000)), exc |-> "",
         M |-> Radians(Add(Scal(MarsElements.M0),
                           Mul(Scal(MarsElements.n), Sub(jd, Scal(J2000))))),
         a |-> FMul(MarsElements.a, AU), e |-> MarsElements.e,
         i |-> FRadians(MarsElements.i), O |-> FRadians(MarsElements.O),
         w |-> FRadians(FSub(W_BAR, MarsElements.O))]
    ELSE [d |-> Unset, exc |-> "ValueError", M |-> Unset, a |-> 0, e |-> 0, i |-> 0,
          O |-> 0, w |-> 0]

\* Lines 83-85: `for _ in range(10): E = M + e * np.sin(E)`.
KeplerPasses == 10
RECURSIVE KeplerFrom(_, _, _, _)
KeplerFrom(M, e, E, n) ==
    IF Failed(E) \/ n = 0 THEN E
    ELSE KeplerFrom(M, e, Add(M, Mul(Scal(e), Sin(E))), n - 1)

\* The values E takes in lines 83-85, from the E = M of line 83 on: one more
\* for each pass of the loop, which has no test and no break.
RECURSIVE KeplerTraceUntilFixed(_, _, _, _)
KeplerTraceUntilFixed(M, e, trace, n) ==
    IF n = 0 \/ (Len(trace) > 1 /\ trace[Len(trace)] = trace[Len(trace) - 1]) THEN trace
    ELSE KeplerTraceUntilFixed(M, e,
             Append(trace, Add(M, Mul(Scal(e), Sin(trace[Len(trace)])))), n - 1)
RECURSIVE KeplerTrace(_, _, _, _)
KeplerTrace(M, e, trace, n) ==
    IF n = 0 THEN trace
    ELSE KeplerTrace(M, e, Append(trace, Add(M, Mul(Scal(e), Sin(trace[Len(trace)])))),
                     n - 1)

\* The values of E in a call: none where line 80 raises.
EphKepler(p) ==
    IF p.exc # "" THEN <<>> ELSE KeplerTrace(p.M, p.e, <<p.M>>, KeplerPasses)

\* Lines 92-94 and 116-117: the perifocal position.
EphPerifocal(p, E) ==
    [exc |-> p.exc, a |-> p.a, e |-> p.e, O |-> p.O, i |-> p.i, w |-> p.w, E |-> E,
     r_mag |-> Mul(Scal(p.a), Sub(Scal(One), Mul(Scal(p.e), Cos(E)))),
     r_peri |-> Stack3(Mul(Scal(p.a), Sub(Cos(E), Scal(p.e))),
                       Mul(Scal(FMul(p.a, FSqrt(FSub(One, FMul(p.e, p.e))))), Sin(E)),
                       Fill(E.shape, 0))]

\* Lines 96-98 and 118: the perifocal velocity.
EphVelocity(p) ==
    Stack3(Mul(Neg(Div(Scal(FSqrt(FMul(MU_SUN, p.a))), p.r_mag)), Sin(p.E)),
           Mul(Mul(Div(Scal(FSqrt(FMul(MU_SUN, p.a))), p.r_mag),
                   Scal(FSqrt(FSub(One, FMul(p.e, p.e))))),
               Cos(p.E)),
           Fill(p.E.shape, 0))

\* Lines 147-153: the rotation matrices about the third and the first axis.
R3(ang) ==
    Arr(<<3, 3>>, <<FCos(ang), FNeg(FSin(ang)), 0,
                    FSin(ang), FCos(ang), 0,
                    0, 0, One>>)
R1(ang) ==
    Arr(<<3, 3>>, <<One, 0, 0,
                    0, FCos(ang), FNeg(FSin(ang)),
                    0, FSin(ang), FCos(ang)>>)

\* Lines 155-163: the rotation, and the transposes that are returned.
EphReturn(p, M_rot) ==
    [r_vec |-> Transpose(MatMul(M_rot, p.r_peri)),
     v_vec |-> Transpose(MatMul(M_rot, EphVelocity(p))),
     exc |-> FirstErr(<<MatMul(M_rot, p.r_peri), MatMul(M_rot, EphVelocity(p))>>)]

EphRotate(p) ==
    IF p.exc # "" THEN [r_vec |-> Unset, v_vec |-> Unset, exc |-> p.exc]
    ELSE EphReturn(p, MatMul(MatMul(R3(p.O), R1(p.i)), R3(p.w)))

EphSolve(p) ==
    IF p.exc # "" THEN EphRotate(p)
    ELSE EphRotate(EphPerifocal(p, KeplerFrom(p.M, p.e, p.M, KeplerPasses)))

\* get_ephemeris(body_name, jd): .r_vec and .v_vec are what it returns.
GetEphemeris(body_name, jd) == EphSolve(EphEnter(body_name, jd))

(***************************************************************************)
(* src/src/plotter.py                                                      *)
(***************************************************************************)

\* A Julian date of jd_from_date() is kept in half hours (the datetimes of the
\* model have whole and half hours), which float64 holds exactly.
JdUnit == 2 * 24

\* jd_from_date(date), lines 12-29. Python's // rounds toward minus infinity,
\* as \div does.
JdFromDate(date) ==
    LET Y == date.year
        M == date.month
        D == date.day
        h == ((date.hour * 60 + date.minute) * JdUnit) \div (24 * 60)
        JDN == (1461 * (Y + 4800 + ((M - 14) \div 12))) \div 4
               + (367 * (M - 2 - 12 * ((M - 14) \div 12))) \div 12
               - (3 * ((Y + 4900 + ((M - 14) \div 12)) \div 100)) \div 4
               + D - 32075
    IN JDN * JdUnit + (h - 12 * (JdUnit \div 24))

\* date_from_jd(jd), lines 31-64, for a jd of whole and half hours: Z is the
\* day number of jd + 0.5 and F the fraction, kept in units of JdUnit; the
\* quotients by 36524.25, 365.25 and 30.6001 are taken on whole numbers.
DateFromJd(jd) ==
    LET Z == (jd + JdUnit \div 2) \div JdUnit
        F == (jd + JdUnit \div 2) % JdUnit
        alpha == (Z * 100 - 186721625) \div 3652425
        A == IF Z < 2299161 THEN Z ELSE Z + 1 + alpha - (alpha \div 4)
        B == A + 1524
        C == (B * 100 - 12210) \div 36525
        D == (36525 * C) \div 100
        E == ((B - D) * 10000) \div 306001
        day == B - D - ((306001 * E) \div 10000)
        month == IF E < 14 THEN E - 1 ELSE E - 13
        year == IF month > 2 THEN C - 4716 ELSE C - 4715
    IN [year |-> year, month |-> month, day |-> day,
        hour |-> (F * 24) \div JdUnit,
        minute |-> (((F * 24) % JdUnit) * 60) \div JdUnit]

\* datetime: the proleptic Gregorian calendar.
IsLeap(Y) == (Y % 4 = 0) /\ ((Y % 100 # 0) \/ (Y % 400 = 0))
DaysIn(Y, M) ==
    IF M = 2 THEN (IF IsLeap(Y) THEN 29 ELSE 28)
    ELSE IF M \in {4, 6, 9, 11} THEN 30 ELSE 31

\* date + timedelta(days=1)
NextDay(date) ==
    IF date.day < DaysIn(date.year, date.month) THEN [date EXCEPT !.day = @ + 1]
    ELSE IF date.month < 12 THEN [date EXCEPT !.day = 1, !.month = @ + 1]
    ELSE [date EXCEPT !.day = 1, !.month = 1, !.year = @ + 1]
MAX_GRID_SIZE == 4000000

\* The defaults of lambert(): tm=1, tol=1e-5, max_iter=50.  1e-5 s is
\* thousands of units in the last place of a float64 time of flight and far
\* below one unit of this format: the model takes a few units of the format.
DefaultTm == 1
DefaultTol == 10
DefaultMaxIter == 50

\* 86400.0 seconds, and the 1.0 second of line 131, in the unit of time.  One
\* second is below the last place of the format: it is kept as the smallest
\* positive number, as a float64 keeps it positive.
DaySeconds == Dec(17202, 6)
OneSecond == Max2(Tiny, TDiv(DaySeconds, 86400))

\* np.where(c, a, b)
Where(c, a, b) ==
    IF Failed(c) THEN c
    ELSE IF Failed(a) THEN a
    ELSE IF Failed(b) THEN b
    ELSE IF ~BOk(a.shape, b.shape) \/ ~BOk(c.shape, BShape(a.shape, b.shape))
         THEN Raise("ValueError")
    ELSE Arr(BShape(c.shape, BShape(a.shape, b.shape)),
             Tab(Prod(BShape(c.shape, BShape(a.shape, b.shape))), LAMBDA k :
                 IF c.data[BIdx(k, BShape(c.shape, BShape(a.shape, b.shape)), c.shape)]
                 THEN a.data[BIdx(k, BShape(c.shape, BShape(a.shape, b.shape)), a.shape)]
                 ELSE b.data[BIdx(k, BShape(c.shape, BShape(a.shape, b.shape)), b.shape)]))

\* a[np.newaxis, :, :] and a[:, np.newaxis, :] of lines 115-121: an
\* IndexError unless a is 2-D.
NewAxisFirst3(a) ==
    IF Failed(a) \/ Ndim(a) = 2 THEN NewAxisFirst(a) ELSE Raise("IndexError")
NewAxisSecond3(a) ==
    IF Failed(a) \/ Ndim(a) = 2 THEN NewAxisSecond(a) ELSE Raise("IndexError")

\* The message of line 88, word by word.
GridSizeMessage(n_launch, n_arrival, max_grid_size) ==
    <<"Grid", "size", ToString(n_launch) \o "x" \o ToString(n_arrival),
      "(" \o ToString(n_launch * n_arrival) \o ")", "exceeds", "maximum", "limit",
      "of", ToString(max_grid_size) \o ".", "Try", "increasing", "the", "step",
      "size", "(dt)", "to", "reduce", "the", "grid", "resolution.">>

\* The grids of line 90-92, which the raise of line 88 precedes.
PorkZeros(launch_dates, arrival_dates, max_grid_size) ==
    IF Len(launch_dates) * Len(arrival_dates) > max_grid_size THEN Unset
    ELSE Fill(<<Len(arrival_dates), Len(launch_dates)>>, 0)

\* The locals of generate_porkchop() after lines 83-92; the dates are Julian
\* dates already (jd_from_date, lines 102 and 108); max_grid_size is the
\* module's MAX_GRID_SIZE as the call finds it.
PorkFrame(launch_dates, arrival_dates, body1, body2, max_grid_size) ==
    [launch_dates |-> launch_dates, arrival_dates |-> arrival_dates,
     body1 |-> body1, body2 |-> body2, max_grid_size |-> max_grid_size,
     n_launch |-> Len(launch_dates), n_arrival |-> Len(arrival_dates),
     C3 |-> PorkZeros(launch_dates, arrival_dates, max_grid_size),
     Vinf_arr |-> PorkZeros(launch_dates, arrival_dates, max_grid_size),
     TOF |-> PorkZeros(launch_dates, arrival_dates, max_grid_size),
     msg |-> IF Len(launch_dates) * Len(arrival_dates) > max_grid_size
             THEN GridSizeMessage(Len(launch_dates), Len(arrival_dates), max_grid_size)
             ELSE <<>>,
     jd1_arr |-> Unset, r1_arr |-> Unset, v1_arr |-> Unset,
     jd2_arr |-> Unset, r2_arr |-> Unset, v2_arr |-> Unset,
     r1_grid |-> Unset, v1_grid |-> Unset, jd1_grid |-> Unset,
     r2_grid |-> Unset, v2_grid |-> Unset, jd2_grid |-> Unset,
     dt_days |-> Unset, valid_mask |-> Unset, dt_sec |-> Unset, dt_sec_safe |-> Unset,
     v1_trans |-> Unset, v2_trans |-> Unset, dv1 |-> Unset, v_inf_dep |-> Unset,
     dv2 |-> Unset,
     exc |-> IF Len(launch_dates) * Len(arrival_dates) > max_grid_size
             THEN "ValueError" ELSE ""]

\* The statement group that has just run raised if one of its arrays did.
PorkRaising(p, as) ==
    IF p.exc # "" THEN p ELSE [p EXCEPT !.exc = FirstErr(as)]

\* Lines 102-111: the states of the two bodies, transposed.
PorkBody1(p, cols) ==
    IF p.exc # "" THEN p
    ELSE IF cols.exc # "" THEN [p EXCEPT !.exc = cols.exc]
    ELSE [p EXCEPT !.jd1_arr = Arr(<<p.n_launch>>, p.launch_dates),
                   !.r1_arr = Transpose(cols.r_vec),
                   !.v1_arr = Transpose(cols.v_vec)]
PorkBody2(p, cols) ==
    IF p.exc # "" THEN p
    ELSE IF cols.exc # "" THEN [p EXCEPT !.exc = cols.exc]
    ELSE [p EXCEPT !.jd2_arr = Arr(<<p.n_arrival>>, p.arrival_dates),
                   !.r2_arr = Transpose(cols.r_vec),
                   !.v2_arr = Transpose(cols.v_vec)]
PorkEphemeris(p) ==
    PorkBody2(PorkBody1(p, GetEphemeris(p.body1, Arr(<<p.n_launch>>, p.launch_dates))),
              GetEphemeris(p.body2, Arr(<<p.n_arrival>>, p.arrival_dates)))

\* Lines 115-122: the grids.
PorkGrids(p) ==
    IF p.exc # "" THEN p
    ELSE [p EXCEPT !.r1_grid = NewAxisFirst3(p.r1_arr),
                   !.v1_grid = NewAxisFirst3(p.v1_arr),
                   !.jd1_grid = NewAxisFirst(p.jd1_arr),
                   !.r2_grid = NewAxisSecond3(p.r2_arr),
                   !.v2_grid = NewAxisSecond3(p.v2_arr),
                   !.jd2_grid = NewAxisSecond(p.jd2_arr)]
PorkGridsDone(p) ==
    PorkRaising(p, <<p.r1_grid, p.v1_grid, p.jd1_grid, p.r2_grid, p.v2_grid, p.jd2_grid>>)

\* Lines 125-131: the times of flight, a dummy where they are not positive.
PorkDays(p) ==
    IF p.exc # "" THEN p
    ELSE [p EXCEPT !.dt_days = Sub(p.jd2_grid, p.jd1_grid),
                   !.valid_mask = Gt(Sub(p.jd2_grid, p.jd1_grid), Scal(0)),
                   !.dt_sec = Mul(Sub(p.jd2_grid, p.jd1_grid), Scal(DaySeconds))]
\* Line 137 given dt_sec instead of dt_sec_safe.
PorkUnsafe(p) ==
    IF p.exc # "" THEN p
    ELSE [p EXCEPT !.dt_sec_safe = p.dt_sec]

PorkSafe(p) ==
    IF p.exc # "" THEN p
    ELSE [p EXCEPT !.dt_sec_safe = Where(p.valid_mask, p.dt_sec, Scal(OneSecond))]
PorkTimesDone(p) == PorkRaising(p, <<p.dt_days, p.valid_mask, p.dt_sec, p.dt_sec_safe>>)

\* generate_porkchop(), from its entry to the call of lambert().
PorkEnter(launch_dates, arrival_dates, body1, body2, max_grid_size) ==
    PorkTimesDone(PorkSafe(PorkDays(PorkGridsDone(PorkGrids(PorkEphemeris(
        PorkFrame(launch_dates, arrival_dates, body1, body2, max_grid_size)))))))

\* Line 137: the arguments of the one call of lambert().
PorkLambertArgs(p) ==
    [r1_vec |-> p.r1_grid, r2_vec |-> p.r2_grid, dt |-> p.dt_sec_safe, mu |-> MU_SUN,
     tm |-> DefaultTm, tol |-> DefaultTol, max_iter |-> DefaultMaxIter]

\* Lines 141-147: the excess velocities and C3.
PorkDeltas(p, vel) ==
    [p EXCEPT !.v1_trans = vel.v1, !.v2_trans = vel.v2,
              !.dv1 = Sub(vel.v1, p.v1_grid),
              !.dv2 = Sub(vel.v2, p.v2_grid)]
PorkNorms(p) ==
    IF p.exc # "" THEN p
    ELSE [p EXCEPT !.v_inf_dep = NormLast(p.dv1),
                   !.C3 = Mul(NormLast(p.dv1), NormLast(p.dv1)),
                   !.Vinf_arr = NormLast(p.dv2),
                   !.TOF = p.dt_days]
PorkNormsDone(p) ==
    PorkRaising(p, <<p.dv1, p.dv2, p.v_inf_dep, p.C3, p.Vinf_arr>>)

\* Lines 153-155: NaN where the time of flight is not positive.
PorkMask(p) ==
    IF p.exc # "" THEN p
    ELSE [p EXCEPT !.C3 = MaskSet(p.C3, Not(p.valid_mask), Scal(NaN)),
                   !.Vinf_arr = MaskSet(p.Vinf_arr, Not(p.valid_mask), Scal(NaN)),
                   !.TOF = MaskSet(p.TOF, Not(p.valid_mask), Scal(NaN))]
PorkMaskDone(p) == PorkRaising(p, <<p.C3, p.Vinf_arr, p.TOF>>)

\* generate_porkchop(), from the return of lambert() to its own return.
PorkReturn(p, vel) == PorkMaskDone(PorkMask(PorkNormsDone(PorkNorms(PorkDeltas(p, vel)))))

(***************************************************************************)
(* src/src/porkchop_mesh.py                                                *)
(***************************************************************************)

\* None, and the value of a variable of the model whose operation has not run.
Null == [null |-> TRUE]

\* np.log and np.log10 of one number: ln(m * 2^e) = e ln 2 + 2 atanh((m - 1)/(m + 1))
\* with 1 <= m < 2.
Ln2 == Dec(69315, 5)
Ln10 == Dec(230259, 5)

RECURSIVE LogReduce(_, _)
LogReduce(x, e) ==
    IF x >= 2 * One THEN LogReduce(x \div 2, e + 1)
    ELSE IF x < One THEN LogReduce(x * 2, e - 1)
    ELSE <<x, e>>

Atanh(u) ==
    LET u2 == FMul(u, u)
        u3 == FMul(u, u2)
        u5 == FMul(u3, u2)
    IN u + TDiv(u3, 3) + TDiv(u5, 5)

FLog(x) ==
    IF IsNaN(x) \/ x < 0 THEN NaN
    ELSE IF x = 0 THEN NInf
    ELSE IF x = PInf THEN PInf
    ELSE LET me == LogReduce(x, 0)
         IN me[2] * Ln2 + 2 * Atanh(FDiv(me[1] - One, me[1] + One))

FLog10(x) == FDiv(FLog(x), Ln10)

Log(a) == Map1(FLog, a)
Log10(a) == Map1(FLog10, a)

\* np.nanmax(a), np.min(a), np.max(a) of a non-empty array; np.nanmax where
\* not every element is NaN. np.min and np.max return NaN when one is there.
NanMax(a) ==
    LET S == {a.data[k] : k \in 1..Size(a)} \ {NaN}
    IN CHOOSE x \in S : \A y \in S : y <= x
AMin(a) ==
    LET S == {a.data[k] : k \in 1..Size(a)}
    IN IF NaN \in S THEN NaN ELSE CHOOSE x \in S : \A y \in S : x <= y
AMax(a) ==
    LET S == {a.data[k] : k \in 1..Size(a)}
    IN IF NaN \in S THEN NaN ELSE CHOOSE x \in S : \A y \in S : y <= x

\* np.nan_to_num(a, nan=nan): NaN becomes the value given, the infinities the
\* largest and smallest finite numbers. The three masks are taken first, so a
\* NaN replaced by an infinite value stays infinite.
NanToNum(a, nan) ==
    Arr(a.shape, Tab(Size(a), LAMBDA k :
        IF IsNaN(a.data[k]) THEN nan
        ELSE IF a.data[k] = PInf THEN MaxMag
        ELSE IF a.data[k] = NInf THEN 0 - MaxMag
        ELSE a.data[k]))

\* X, Y = np.meshgrid(x, y) (indexing 'xy'): both of shape (len(y), len(x)).
MeshgridX(x, y) ==
    Arr(<<Size(y), Size(x)>>,
        Tab(Size(y) * Size(x), LAMBDA k : x.data[1 + ((k - 1) % Size(x))]))
MeshgridY(x, y) ==
    Arr(<<Size(y), Size(x)>>,
        Tab(Size(y) * Size(x), LAMBDA k : y.data[1 + ((k - 1) \div Size(x))]))

Flatten(a) == Arr(<<Size(a)>>, a.data)

\* np.stack((a, b, c), axis=1) of three 1-D arrays of one length.
StackAxis1(a, b, c) ==
    Arr(<<Size(a), 3>>,
        Tab(3 * Size(a), LAMBDA k :
            IF (k - 1) % 3 = 0 THEN a.data[1 + ((k - 1) \div 3)]
            ELSE IF (k - 1) % 3 = 1 THEN b.data[1 + ((k - 1) \div 3)]
            ELSE c.data[1 + ((k - 1) \div 3)]))

\* np.arange(n): empty when n <= 0.
Arange(n) == Arr(<<Max2(n, 0)>>, Tab(Max2(n, 0), LAMBDA k : k - 1))

\* a + n for an array of integers.
Plus(a, n) == Arr(a.shape, Tab(Size(a), LAMBDA k : a.data[k] + n))

\* DataGrid.__init__, lines 7-19.
DataGrid(data, x_axis, y_axis) ==
    [data |-> data, x_axis |-> x_axis, y_axis |-> y_axis,
     exc |-> IF data.shape # <<Size(y_axis), Size(x_axis)>> THEN "ValueError" ELSE ""]

\* DataGrid.width and DataGrid.height, lines 21-27.
Width(grid) == Size(grid.x_axis)
Height(grid) == Size(grid.y_axis)

\* PorkchopMesh.__init__, lines 32-40.
PorkchopMesh(data_grid) ==
    [grid |-> data_grid, vertices |-> Null, indices |-> Null, uvs |-> Null,
     scalars |-> Null, x_bounds |-> Null, y_bounds |-> Null, z_bounds |-> Null]

\* generate_mesh(), lines 50-57: nx, ny and the data with NaN and the
\* infinities replaced.
MeshFrame(self, z_scale, morph_type) ==
    [self |-> self, z_scale |-> z_scale, morph_type |-> morph_type,
     nx |-> Width(self.grid), ny |-> Height(self.grid),
     raw_data |-> NanToNum(self.grid.data,
                           IF ~(\A k \in 1..Size(self.grid.data) : IsNaN(self.grid.data.data[k]))
                           THEN NanMax(self.grid.data) ELSE 0),
     morphed_data |-> Unset, Z |-> Unset,
     v0 |-> Unset, v1 |-> Unset, v2 |-> Unset, v3 |-> Unset]

\* Lines 61-64 and 66-69: the logarithm logs of the positive elements, the
\* others set to the least of them.
MorphLog(raw_data, mask, logs) ==
    MaskSet(MaskSet(Fill(raw_data.shape, 0), mask, logs),
            Not(mask),
            Scal(IF AnyTrue(mask) THEN AMin(logs) ELSE 0))

\* Lines 59-72.
MeshMorph(f) ==
    LET mask == Gt(f.raw_data, Scal(0))
        morphed_data ==
            IF f.morph_type = "log_e"
            THEN MorphLog(f.raw_data, mask, Log(MaskGet(f.raw_data, mask)))
            ELSE IF f.morph_type = "log_10"
            THEN MorphLog(f.raw_data, mask, Log10(MaskGet(f.raw_data, mask)))
            ELSE f.raw_data
    IN [f EXCEPT !.morphed_data = morphed_data, !.self.scalars = morphed_data]

\* Lines 74-80.
MeshUvs(f) ==
    LET d_min == AMin(f.morphed_data)
        d_max == AMax(f.morphed_data)
    IN [f EXCEPT !.self.uvs =
            IF FGt(d_max, d_min)
            THEN Div(Sub(f.morphed_data, Scal(d_min)), Scal(FSub(d_max, d_min)))
            ELSE Fill(f.morphed_data.shape, 0)]

\* Lines 87-98.
MeshVertices(f) ==
    LET X == MeshgridX(f.self.grid.x_axis, f.self.grid.y_axis)
        Y == MeshgridY(f.self.grid.x_axis, f.self.grid.y_axis)
        Z == Mul(f.morphed_data, Scal(f.z_scale))
    IN [f EXCEPT !.Z = Z,
                 !.self.vertices = StackAxis1(Flatten(X), Flatten(Y), Flatten(Z)),
                 !.self.x_bounds = <<AMin(X), AMax(X)>>,
                 !.self.y_bounds = <<AMin(Y), AMax(Y)>>,
                 !.self.z_bounds = <<AMin(Z), AMax(Z)>>]

\* Lines 112-127: the four corners of every quad, flattened.
MeshQuadsByColumns(f) ==
    LET X_idx == MeshgridX(Arange(f.nx - 1), Arange(f.ny - 1))
        Y_idx == MeshgridY(Arange(f.nx - 1), Arange(f.ny - 1))
        v0 == Arr(X_idx.shape, Tab(Size(X_idx), LAMBDA k : Y_idx.data[k] * f.nx + X_idx.data[k]))
    IN [f EXCEPT !.v0 = Flatten(v0),
                 !.v1 = Flatten(Plus(v0, 1)),
                 !.v2 = Flatten(Plus(v0, f.ny)),
                 !.v3 = Flatten(Plus(Plus(v0, f.ny), 1))]
MeshQuads(f) ==
    LET X_idx == MeshgridX(Arange(f.nx - 1), Arange(f.ny - 1))
        Y_idx == MeshgridY(Arange(f.nx - 1), Arange(f.ny - 1))
        v0 == Arr(X_idx.shape, Tab(Size(X_idx), LAMBDA k : Y_idx.data[k] * f.nx + X_idx.data[k]))
    IN [f EXCEPT !.v0 = Flatten(v0),
                 !.v1 = Flatten(Plus(v0, 1)),
                 !.v2 = Flatten(Plus(v0, f.nx)),
                 !.v3 = Flatten(Plus(Plus(v0, f.nx), 1))]

\* indices = np.empty((n, 3)); indices[0::2] = t1; indices[1::2] = t2, for t1
\* and t2 of n/2 rows each (another number of rows raises ValueError).
Interleave(n, t1, t2) ==
    IF n < 0 \/ t1.shape # <<(n + 1) \div 2, 3>> \/ t2.shape # <<n \div 2, 3>>
    THEN Raise("ValueError")
    ELSE Arr(<<n, 3>>,
             Tab(3 * n, LAMBDA k :
                 IF ((k - 1) \div 3) % 2 = 0
                 THEN t1.data[3 * ((k - 1) \div 6) + 1 + ((k - 1) % 3)]
                 ELSE t2.data[3 * ((k - 1) \div 6) + 1 + ((k - 1) % 3)]))

\* Lines 129-142. The vertex numbers are kept as int32, which holds those of
\* every grid below 2^31 vertices.
MeshIndices(f) ==
    LET t1 == StackAxis1(f.v0, f.v2, f.v1)
        t2 == StackAxis1(f.v1, f.v2, f.v3)
        n_quads == (f.nx - 1) * (f.ny - 1)
    IN [f EXCEPT !.self.indices = Interleave(n_quads * 2, t1, t2)]

\* generate_mesh(self, z_scale, morph_type): the mesh object afterwards.
GenerateMesh(self, z_scale, morph_type) ==
    MeshIndices(MeshQuads(MeshVertices(MeshUvs(MeshMorph(
        MeshFrame(self, z_scale, morph_type)))))).self

(***************************************************************************)
(* src/src/mesh_exporter.py and the file saving of src/src/plotter.py.     *)
(* A str is a sequence of one-character strings; a path of the file system *)
(* is the sequence of its component names from the root.                   *)
(***************************************************************************)

\* phrase in msg: the sequence holds the phrase as a run of its elements.
Contains(msg, phrase) ==
    \E k \in 0..(Len(msg) - Len(phrase)) :
        \A n \in 1..Len(phrase) : msg[k + n] = phrase[n]

\* s.endswith(suffix), s.lower()
EndsWith(s, suffix) ==
    Len(s) >= Len(suffix) /\ SubSeq(s, Len(s) - Len(suffix) + 1, Len(s)) = suffix

UpperCase == <<"A", "B", "C", "D", "E", "F", "G", "H", "I", "J", "K", "L", "M",
               "N", "O", "P", "Q", "R", "S", "T", "U", "V", "W", "X", "Y", "Z">>
LowerCase == <<"a", "b", "c", "d", "e", "f", "g", "h", "i", "j", "k", "l", "m",
               "n", "o", "p", "q", "r", "s", "t", "u", "v", "w", "x", "y", "z">>
Lower(s) ==
    [k \in 1..Len(s) |->
        IF \E n \in 1..Len(UpperCase) : UpperCase[n] = s[k]
        THEN LowerCase[CHOOSE n \in 1..Len(UpperCase) : UpperCase[n] = s[k]]
        ELSE s[k]]

\* The characters of s as one string.
RECURSIVE Text(_)
Text(s) == IF s = <<>> THEN "" ELSE s[1] \o Text(Tail(s))

\* s.split('/'), each part as one string; os.path.isabs(s).
RECURSIVE Split(_)
Split(s) ==
    IF \E k \in 1..Len(s) : s[k] = "/"
    THEN LET i == CHOOSE k \in 1..Len(s) : s[k] = "/" /\ \A n \in 1..(k - 1) : s[n] # "/"
         IN <<Text(SubSeq(s, 1, i - 1))>> \o Split(SubSeq(s, i + 1, Len(s)))
    ELSE <<Text(s)>>
IsAbs(s) == Len(s) > 0 /\ s[1] = "/"

\* The path as os.path prints it.
RECURSIVE PathText(_)
PathText(path) ==
    IF path = <<>> THEN "/"
    ELSE IF Len(path) = 1 THEN "/" \o path[1]
    ELSE PathText(SubSeq(path, 1, Len(path) - 1)) \o "/" \o path[Len(path)]

\* os.path.realpath: the names of rest followed from path, empty names and
\* '.' skipped, '..' one level up, symbolic links replaced by their targets,
\* names that do not exist kept. (The links of the model form no cycle.)
RECURSIVE Resolve(_, _, _)
Resolve(path, rest, links) ==
    IF rest = <<>> THEN path
    ELSE IF Head(rest) = "" \/ Head(rest) = "." THEN Resolve(path, Tail(rest), links)
    ELSE IF Head(rest) = ".."
         THEN Resolve(SubSeq(path, 1, Len(path) - 1), Tail(rest), links)
    ELSE IF Append(path, Head(rest)) \in DOMAIN links
         THEN Resolve(IF IsAbs(links[Append(path, Head(rest))]) THEN <<>> ELSE path,
                      Split(links[Append(path, Head(rest))]) \o Tail(rest), links)
    ELSE Resolve(Append(path, Head(rest)), Tail(rest), links)

Realpath(filename, disk) ==
    Resolve(IF IsAbs(filename) THEN <<>> ELSE disk.cwd, Split(filename), disk.links)
RealCwd(disk) == Resolve(<<>>, disk.cwd, disk.links)

\* os.path.commonpath([a, b]) of two absolute paths.
CommonPath(a, b) ==
    LET n == CHOOSE k \in 0..Min2(Len(a), Len(b)) :
                /\ SubSeq(a, 1, k) = SubSeq(b, 1, k)
                /\ (k < Min2(Len(a), Len(b)) => a[k + 1] # b[k + 1])
    IN SubSeq(a, 1, n)

\* The directory the kernel reaches by the names of rest from path: every
\* name must be a directory or a link to one.
RECURSIVE Walk(_, _, _)
Walk(path, rest, disk) ==
    IF rest = <<>> THEN [errno |-> "", path |-> path]
    ELSE IF Head(rest) = "" \/ Head(rest) = "." THEN Walk(path, Tail(rest), disk)
    ELSE IF Head(rest) = ".."
         THEN Walk(SubSeq(path, 1, Len(path) - 1), Tail(rest), disk)
    ELSE IF Append(path, Head(rest)) \in DOMAIN disk.links
         THEN Walk(IF IsAbs(disk.links[Append(path, Head(rest))]) THEN <<>> ELSE path,
                   Split(disk.links[Append(path, Head(rest))]) \o Tail(rest), disk)
    ELSE IF Append(path, Head(rest)) \in disk.dirs
         THEN Walk(Append(path, Head(rest)), Tail(rest), disk)
    ELSE IF Append(path, Head(rest)) \in DOMAIN disk.files
         THEN [errno |-> "ENOTDIR", path |-> <<>>]
    ELSE [errno |-> "ENOENT", path |-> <<>>]

\* The file a successful os.open leaves: created empty with the mode given,
\* or truncated.
Truncated(full, mode, disk) ==
    [disk EXCEPT !.files =
        (full :> [content |-> [text |-> ""],
                  mode |-> IF full \in DOMAIN disk.files THEN disk.files[full].mode ELSE mode])
        @@ disk.files]

\* os.open(names, flags, mode) from the directory path, for flags with
\* O_WRONLY, O_CREAT and O_TRUNC: the errno, or the path of the file opened and
\* the file system with that file created or truncated.
RECURSIVE OpenAt(_, _, _, _, _)
OpenAt(path, names, flags, mode, disk) ==
    LET dir == Walk(path, SubSeq(names, 1, Len(names) - 1), disk)
        full == Append(dir.path, names[Len(names)])
    IN IF dir.errno # "" THEN [errno |-> dir.errno, path |-> <<>>, disk |-> disk]
       ELSE IF names[Len(names)] \in {"", ".", ".."}
            THEN [errno |-> "EISDIR", path |-> <<>>, disk |-> disk]
       ELSE IF full \in DOMAIN disk.links
            THEN (IF "O_NOFOLLOW" \in flags
                  THEN [errno |-> "ELOOP", path |-> <<>>, disk |-> disk]
                  ELSE OpenAt(IF IsAbs(disk.links[full]) THEN <<>> ELSE dir.path,
                              Split(disk.links[full]), flags, mode, disk))
       ELSE IF full \in disk.dirs THEN [errno |-> "EISDIR", path |-> <<>>, disk |-> disk]
       ELSE [errno |-> "", path |-> full, disk |-> Truncated(full, mode, disk)]

OsOpen(filename, flags, mode, disk) ==
    OpenAt(IF IsAbs(filename) THEN <<>> ELSE disk.cwd, Split(filename), flags, mode, disk)

\* The OSError subclass Python raises for an errno.
OSErrorOf(errno) ==
    IF errno = "ENOENT" THEN "FileNotFoundError"
    ELSE IF errno = "ENOTDIR" THEN "NotADirectoryError"
    ELSE IF errno = "EISDIR" THEN "IsADirectoryError"
    ELSE "OSError"

\* flags = os.O_WRONLY | os.O_CREAT | os.O_TRUNC, and os.O_NOFOLLOW where os
\* has it (disk.nofollow).
OpenFlagsFollowing(disk) == {"O_WRONLY", "O_CREAT", "O_TRUNC"}
OpenFlags(disk) ==
    {"O_WRONLY", "O_CREAT", "O_TRUNC"} \cup (IF disk.nofollow THEN {"O_NOFOLLOW"} ELSE {})

\* The messages of the ValueErrors, as their words.
OutsideMessage(real_path) ==
    <<"Security", "Error", ":", "File", "path", "resolves", "to",
      "'" \o PathText(real_path) \o "'", ",", "which", "is", "outside", "the",
      "current", "working", "directory", ".">>
SymlinkMessage(filename) ==
    <<"Security", "Error", ":", "File", "path", "'" \o Text(filename) \o "'",
      "is", "a", "symbolic", "link", ".">>
NotGeneratedMessage ==
    <<"Mesh", "has", "not", "been", "generated", ".", "Call", "generate_mesh()",
      "first", ".">>
VtpExtensionMessage == <<"Filename", "must", "end", "with", ".vtp">>
TraversalMessage == <<"Path", "traversal", "detected", "in", "filename">>
PngExtensionMessage(filename) ==
    <<"Security", "Error", ":", "Filename", "'" \o Text(filename) \o "'", "must",
      "end", "with", ".png", "extension", ".">>

\* What a call leaves: the exception and its message, the arguments os.open
\* was given (Null when it was not called), the first argument savefig was
\* given, the file system.
Outcome(exc, msg, open_args, savefig_arg, disk) ==
    [exc |-> exc, msg |-> msg, open_args |-> open_args, savefig_arg |-> savefig_arg,
     disk |-> disk]

\* Lines 54-96: what the file holds when the with block is left.
VtpContent(mesh_obj) ==
    [n_points |-> mesh_obj.vertices.shape[1],
     n_polys |-> mesh_obj.indices.shape[1],
     Points |-> mesh_obj.vertices,
     connectivity |-> mesh_obj.indices,
     offsets |-> [k \in 1..mesh_obj.indices.shape[1] |-> 3 * k],
     MorphedValue |-> mesh_obj.scalars,
     NormalizedUV |-> mesh_obj.uvs]

\* Lines 37-96 of write_vtp: the file is opened and written.
VtpOpenAndWrite(filename, mesh_obj, disk) ==
    LET flags == OpenFlags(disk)
        o == OsOpen(filename, flags, "0o600", disk)
        open_args == [path |-> filename, flags |-> flags, mode |-> "0o600"]
    IN IF o.errno = "ELOOP"
       THEN Outcome("ValueError", SymlinkMessage(filename), open_args, Null, disk)
       ELSE IF o.errno # ""
       THEN Outcome(OSErrorOf(o.errno), <<>>, open_args, Null, disk)
       ELSE Outcome("", <<>>, open_args, Null,
                    [o.disk EXCEPT !.files[o.path].content = VtpContent(mesh_obj)])

\* write_vtp(filename, mesh), lines 5-96.
WriteVtpOpenFirst(filename, mesh_obj, disk) ==
    IF CommonPath(RealCwd(disk), Realpath(filename, disk)) # RealCwd(disk)
    THEN Outcome("ValueError", OutsideMessage(Realpath(filename, disk)), Null, Null, disk)
    ELSE IF mesh_obj.vertices = Null \/ mesh_obj.indices = Null
    THEN Outcome("ValueError", NotGeneratedMessage, Null, Null, disk)
    ELSE IF ~EndsWith(filename, <<".", "v", "t", "p">>)
    THEN Outcome("ValueError", VtpExtensionMessage,
                 [path |-> filename, flags |-> OpenFlags(disk), mode |-> "0o600"], Null,
                 OsOpen(filename, OpenFlags(disk), "0o600", disk).disk)
    ELSE IF Contains(filename, <<".", ".">>)
    THEN Outcome("ValueError", TraversalMessage, Null, Null, disk)
    ELSE VtpOpenAndWrite(filename, mesh_obj, disk)
WriteVtp(filename, mesh_obj, disk) ==
    IF CommonPath(RealCwd(disk), Realpath(filename, disk)) # RealCwd(disk)
    THEN Outcome("ValueError", OutsideMessage(Realpath(filename, disk)), Null, Null, disk)
    ELSE IF mesh_obj.vertices = Null \/ mesh_obj.indices = Null
    THEN Outcome("ValueError", NotGeneratedMessage, Null, Null, disk)
    ELSE IF ~EndsWith(filename, <<".", "v", "t", "p">>)
    THEN Outcome("ValueError", VtpExtensionMessage, Null, Null, disk)
    ELSE IF Contains(filename, <<".", ".">>)
    THEN Outcome("ValueError", TraversalMessage, Null, Null, disk)
    ELSE VtpOpenAndWrite(filename, mesh_obj, disk)

\* Lines 19-33 of write_vtp, the checks before the file is opened: the
\* ValueError one of them raises, or Null.
VtpChecks(filename, mesh_obj, disk) ==
    IF CommonPath(RealCwd(disk), Realpath(filename, disk)) # RealCwd(disk)
    THEN Outcome("ValueError", OutsideMessage(Realpath(filename, disk)), Null, Null, disk)
    ELSE IF mesh_obj.vertices = Null \/ mesh_obj.indices = Null
    THEN Outcome("ValueError", NotGeneratedMessage, Null, Null, disk)
    ELSE IF ~EndsWith(filename, <<".", "v", "t", "p">>)
    THEN Outcome("ValueError", VtpExtensionMessage, Null, Null, disk)
    ELSE IF Contains(filename, <<".", ".">>)
    THEN Outcome("ValueError", TraversalMessage, Null, Null, disk)
    ELSE Null

\* Lines 288-295 of plot_porkchop, the checks before the file is opened.
PngChecks(filename, disk) ==
    IF CommonPath(RealCwd(disk), Realpath(filename, disk)) # RealCwd(disk)
    THEN Outcome("ValueError", OutsideMessage(Realpath(filename, disk)), Null, Null, disk)
    ELSE IF ~EndsWith(Lower(filename), <<".", "p", "n", "g">>)
    THEN Outcome("ValueError", PngExtensionMessage(filename), Null, Null, disk)
    ELSE Null

\* Lines 296-315 of plot_porkchop: the file is opened and the figure saved
\* through the file object.
PngOpenAndSave(filename, disk) ==
    LET flags == OpenFlags(disk)
        o == OsOpen(filename, flags, "0o600", disk)
        open_args == [path |-> filename, flags |-> flags, mode |-> "0o600"]
    IN IF o.errno = "ELOOP"
       THEN Outcome("ValueError", SymlinkMessage(filename), open_args, Null, disk)
       ELSE IF o.errno # ""
       THEN Outcome(OSErrorOf(o.errno), <<>>, open_args, Null, disk)
       ELSE Outcome("", <<>>, open_args, [file |-> o.path, mode |-> "wb"],
                    [o.disk EXCEPT !.files[o.path].content = [format |-> "png"]])

\* plot_porkchop(..., filename), lines 287-315: the figure is saved.
PlotSave(filename, disk) ==
    IF CommonPath(RealCwd(disk), Realpath(filename, disk)) # RealCwd(disk)
    THEN Outcome("ValueError", OutsideMessage(Realpath(filename, disk)), Null, Null, disk)
    ELSE IF ~EndsWith(Lower(filename), <<".", "p", "n", "g">>)
    THEN Outcome("ValueError", PngExtensionMessage(filename), Null, Null, disk)
    ELSE PngOpenAndSave(filename, disk)

(***************************************************************************)
(* src/src/cli_utils.py                                                    *)
(* A duration is kept in hundredths of a day, in which 365.25 and 30.44    *)
(* are whole numbers; the durations of the model are whole and half days,  *)
(* on which the float arithmetic of the code is exact.                     *)
(***************************************************************************)
Cent == 10 * 10

\* Style, lines 20-26.
GREEN == "\\033[92m"
RED == "\\033[91m"
YELLOW == "\\033[93m"

\* round(n / d) for n >= 0 and d > 0: to the nearest integer, a half to the
\* even one.
RoundHalfEven(n, d) ==
    IF 2 * (n % d) < d THEN n \div d
    ELSE IF 2 * (n % d) > d THEN (n \div d) + 1
    ELSE IF (n \div d) % 2 = 0 THEN n \div d
    ELSE (n \div d) + 1

\* f"{days:.1f}"
Fixed1(days) ==
    (IF days < 0 THEN "-" ELSE "")
    \o ToString(RoundHalfEven(Abs(days), Cent \div 10) \div 10)
    \o "." \o ToString(RoundHalfEven(Abs(days), Cent \div 10) % 10)

DAYS_PER_YEAR == 36525
DAYS_PER_MONTH == 3044

\* Lines 49-68: years and months.
DurationYears(days, short) ==
    LET years0 == days \div DAYS_PER_YEAR
        remaining_days == days % DAYS_PER_YEAR
        months0 == RoundHalfEven(remaining_days, DAYS_PER_MONTH)
        years == IF months0 = 12 THEN years0 + 1 ELSE years0
        months == IF months0 = 12 THEN 0 ELSE months0
        y_str == IF short THEN "yr" ELSE IF years = 1 THEN "year" ELSE "years"
        m_str == IF short THEN "mo" ELSE IF months = 1 THEN "month" ELSE "months"
    IN IF months = 0 THEN ToString(years) \o " " \o y_str
       ELSE ToString(years) \o " " \o y_str \o ", " \o ToString(months) \o " " \o m_str

\* Lines 70-89: months and days.
DurationMonthsNoRollover(days, short) ==
    LET months == days \div DAYS_PER_MONTH
        remaining_days == RoundHalfEven(days % DAYS_PER_MONTH, Cent)
        m_str == IF short THEN "mo" ELSE IF months = 1 THEN "month" ELSE "months"
        d_str == IF short THEN "d" ELSE IF remaining_days = 1 THEN "day" ELSE "days"
    IN IF remaining_days = 0 THEN ToString(months) \o " " \o m_str
       ELSE ToString(months) \o " " \o m_str \o ", "
            \o ToString(remaining_days) \o " " \o d_str
DurationMonths(days, short) ==
    LET months0 == days \div DAYS_PER_MONTH
        remaining0 == RoundHalfEven(days % DAYS_PER_MONTH, Cent)
        months == IF remaining0 >= 30 THEN months0 + 1 ELSE months0
        remaining_days == IF remaining0 >= 30 THEN 0 ELSE remaining0
        m_str == IF short THEN "mo" ELSE IF months = 1 THEN "month" ELSE "months"
        d_str == IF short THEN "d" ELSE IF remaining_days = 1 THEN "day" ELSE "days"
    IN IF remaining_days = 0 THEN ToString(months) \o " " \o m_str
       ELSE ToString(months) \o " " \o m_str \o ", "
            \o ToString(remaining_days) \o " " \o d_str

\* format_duration(days, short), lines 28-89.
FormatDuration(days, short) ==
    IF days < 30 * Cent THEN Fixed1(days) \o " " \o (IF short THEN "d" ELSE "days")
    ELSE IF days >= DAYS_PER_YEAR THEN DurationYears(days, short)
    ELSE DurationMonths(days, short)

\* get_c3_rating(value), lines 91-108.
GetC3RatingStrict(value) ==
    IF FLt(value, 15 * One) THEN <<GREEN, "(Excellent)">>
    ELSE IF FLt(value, 20 * One) THEN <<GREEN, "(Good)">>
    ELSE IF FLt(value, 30 * One) THEN <<YELLOW, "(Acceptable)">>
    ELSE <<RED, "(High Energy)">>
GetC3Rating(value) ==
    IF FLt(value, 15 * One) THEN <<GREEN, "(Excellent)">>
    ELSE IF FLe(value, 20 * One) THEN <<GREEN, "(Good)">>
    ELSE IF FLe(value, 30 * One) THEN <<YELLOW, "(Acceptable)">>
    ELSE <<RED, "(High Energy)">>

\* get_c3_color(value), lines 110-116.
GetC3Color(value) == GetC3Rating(value)[1]

\* Spinner, lines 134-200.  A Spinner is a record: is_tty and stop_event of
\* __init__; where the thread of the `with` statement stands (main) and
\* where the thread of _spin stands (thread); whether start() and join() of
\* self.thread were called; what was written to sys.stdout, each write by its
\* kind (the texts carry the elapsed time); the exception of the body, what
\* __exit__ returned and what the `with` statement raised then.
SpinnerInit(is_tty) ==
    [is_tty |-> is_tty, stop_event |-> FALSE, main |-> "constructed", thread |-> "new",
     started |-> FALSE, joined |-> FALSE, stdout |-> <<>>, i |-> 0,
     exc_type |-> "", returned |-> "", raised |-> ""]

\* __enter__, lines 152-160.
SpinnerEnter(s) ==
    IF s.is_tty THEN [s EXCEPT !.started = TRUE, !.thread = "test", !.main = "body"]
    ELSE [s EXCEPT !.stdout = Append(@, "message"), !.main = "body"]

\* __exit__, lines 163-164 and 168-169: the event is set; or the blank.
SpinnerExitStop(s) ==
    IF s.is_tty THEN [s EXCEPT !.stop_event = TRUE, !.main = "join"]
    ELSE [s EXCEPT !.stdout = Append(@, "blank"), !.main = "status"]

\* Line 165: join() returns once the thread of _spin has ended.
JoinReturnsAtOnce(s) == TRUE
JoinReturns(s) == s.thread = "done"

\* Lines 165-167: after the join, the carriage return.
SpinnerExitJoin(s) ==
    [s EXCEPT !.joined = TRUE, !.stdout = Append(@, "clear"), !.main = "status"]

\* Lines 171-190: the status line, and what __exit__ returns (None where it
\* falls off its end).
SpinnerExitStatus(s) ==
    IF s.exc_type = "KeyboardInterrupt"
    THEN [s EXCEPT !.stdout = @ \o (IF s.is_tty THEN <<"cancelled">>
                                                ELSE <<"cancelled", "cancelled note">>),
                   !.returned = "False", !.main = "returned"]
    ELSE IF s.exc_type # ""
    THEN [s EXCEPT !.stdout = @ \o (IF s.is_tty THEN <<"failed">>
                                                ELSE <<"failed", "failed note">>),
                   !.returned = "False", !.main = "returned"]
    ELSE [s EXCEPT !.stdout = Append(@, IF s.is_tty THEN "success" ELSE "done"),
                   !.returned = "None", !.main = "returned"]

\* The `with` statement: the exception of the body is raised again unless
\* __exit__ returned a true value.
WithLeaves(s) ==
    [s EXCEPT !.raised = IF s.returned \in {"False", "None"} THEN s.exc_type ELSE ""]

\* _spin, lines 192-200: the test of the while, the frame, the sleep.
SpinTest(s) == [s EXCEPT !.thread = IF s.stop_event THEN "done" ELSE "write"]
SpinWrite(s) == [s EXCEPT !.stdout = Append(@, "frame"), !.thread = "sleep"]
SpinSleep(s) == [s EXCEPT !.i = (@ + 1) % 10, !.thread = "test"]

(***************************************************************************)
(* The calls the model makes: lambert() and generate_porkchop() on bounded *)
(* inputs.                                                                 *)
(***************************************************************************)
MaxIter == 6
Tol == 3

\* Position rows (AU): r1 on the x axis; r2 perpendicular to it, antipodal
\* to it, or the zero vector.
R1Row == <<One, 0, 0>>
R2Rows == {<<0, One, 0>>, <<0 - One, 0, 0>>, <<0, 0, 0>>}

\* Times of flight (canonical time units, mu = 1).
DtValues == {1571, 500, 200, 4000}
IterValues == {0, MaxIter}

LambertArgs(r1_vec, r2_vec, dt, mu, tm, max_iter) ==
    [r1_vec |-> r1_vec, r2_vec |-> r2_vec, dt |-> dt, mu |-> mu, tm |-> tm,
     tol |-> Tol, max_iter |-> max_iter]

\* Batches of two elements, every array of the full batch shape.
BatchInputs ==
    {LambertArgs(Arr(<<2, 3>>, R1Row \o R1Row), Arr(<<2, 3>>, p \o q),
                 Arr(<<2>>, <<d, e>>), One, tm, m) :
        p \in R2Rows, q \in R2Rows, d \in DtValues, e \in DtValues,
        tm \in {1, 0 - 1}, m \in IterValues} \
    {a \in [r1_vec : {Arr(<<2, 3>>, R1Row \o R1Row)},
            r2_vec : {Arr(<<2, 3>>, p \o q) : p \in R2Rows, q \in R2Rows},
            dt : {Arr(<<2>>, <<d, e>>) : d \in DtValues, e \in DtValues},
            mu : {One}, tm : {0 - 1}, tol : {Tol}, max_iter : {0}] : TRUE}

\* Scalar calls: 1-D position vectors and a 0-d time of flight.
ScalarInputs ==
    {LambertArgs(Arr(<<3>>, R1Row), Arr(<<3>>, p), Scal(d), One, tm, m) :
        p \in R2Rows, d \in DtValues, tm \in {1, 0 - 1}, m \in IterValues}

\* Calls with mu <= 0 or dt <= 0.
MalformedInputs ==
    {LambertArgs(Arr(<<3>>, R1Row), Arr(<<3>>, <<0, One, 0>>), Scal(d), mu, 1, m) :
        d \in {500, 0, 0 - 500}, mu \in {One, 0, 0 - One}, m \in IterValues}

\* Calls whose arrays are broadcast-compatible without all having the full
\* batch shape: dt of shape (1,) or 0-d against two position pairs, one r1
\* (1-D, or a single row) against two r2, dt of shape (2, 1) against a 2 x 2
\* grid of position pairs.
PerpRow == <<0, One, 0>>
ShapeInputs ==
    {LambertArgs(r.a, r.b, r.c, One, 1, MaxIter) :
        r \in UNION {
            {[a |-> Arr(<<2, 3>>, R1Row \o R1Row), b |-> Arr(<<2, 3>>, PerpRow \o PerpRow),
              c |-> Arr(<<1>>, <<d>>)],
             [a |-> Arr(<<2, 3>>, R1Row \o R1Row), b |-> Arr(<<2, 3>>, PerpRow \o PerpRow),
              c |-> Scal(d)],
             [a |-> Arr(<<3>>, R1Row), b |-> Arr(<<2, 3>>, PerpRow \o PerpRow),
              c |-> Arr(<<2>>, <<d, d>>)],
             [a |-> Arr(<<1, 3>>, R1Row), b |-> Arr(<<2, 3>>, PerpRow \o PerpRow),
              c |-> Arr(<<2>>, <<d, d>>)],
             [a |-> Arr(<<2, 2, 3>>, R1Row \o R1Row \o R1Row \o R1Row),
              b |-> Arr(<<2, 2, 3>>, PerpRow \o PerpRow \o PerpRow \o PerpRow),
              c |-> Arr(<<2, 1>>, <<d, d>>)]} : d \in {500, 4000}}}

\* Calls with r2 = r1: scalar calls, and batches of such an element and an
\* ordinary one.
CoincidentInputs ==
    {LambertArgs(Arr(<<3>>, R1Row), Arr(<<3>>, R1Row), Scal(d), One, tm, m) :
        d \in DtValues, tm \in {1, 0 - 1}, m \in IterValues}
    \cup {LambertArgs(Arr(<<2, 3>>, R1Row \o R1Row), Arr(<<2, 3>>, R1Row \o PerpRow),
                      Arr(<<2>>, <<d, d>>), One, 1, m) :
              d \in DtValues, m \in IterValues}

LambertInputs ==
    BatchInputs \cup ScalarInputs \cup MalformedInputs \cup ShapeInputs
    \cup CoincidentInputs

\* Element k of a full batch as a batch of one, and as a scalar call.
SingleOf(a, k) ==
    [a EXCEPT !.r1_vec = Arr(<<1, 3>>, SubSeq(a.r1_vec.data, 3 * k - 2, 3 * k)),
              !.r2_vec = Arr(<<1, 3>>, SubSeq(a.r2_vec.data, 3 * k - 2, 3 * k)),
              !.dt = Arr(<<1>>, <<a.dt.data[k]>>)]
ScalarOf(a, k) ==
    [a EXCEPT !.r1_vec = Arr(<<3>>, SubSeq(a.r1_vec.data, 3 * k - 2, 3 * k)),
              !.r2_vec = Arr(<<3>>, SubSeq(a.r2_vec.data, 3 * k - 2, 3 * k)),
              !.dt = Scal(a.dt.data[k])]

\* Launch and arrival dates (days from J2000): grids of one to three dates
\* a side; some arrivals precede some launches, one is a launch date, one
\* follows a launch by ten days.
Days(n) == n * Scale
LaunchLists == {<<0>>, <<0, Days(100)>>, <<0, Days(100), Days(200)>>}
ArrivalLists ==
    {<<Days(250)>>, <<Days(150), Days(250)>>, <<Days(10), Days(200), Days(350)>>}
PorkInputs ==
    {[launch_dates |-> l, arrival_dates |-> a] : l \in LaunchLists, a \in ArrivalLists}

\* MAX_GRID_SIZE as a call finds it: as the module sets it, or patched to a
\* few cells as tests/test_plotter_security.py patches it.
PatchedGridSize == 4
GridLimits == {MAX_GRID_SIZE, PatchedGridSize}

VARIABLES pc, call, frame, iter, ret, solo, pork, eph, mesh, fs, io, cal, cli, spin, race,
          tr

\* What lambert() and generate_porkchop() work on, and what the other
\* operations work on: get_ephemeris(), the mesh and the files written, the
\* calendar conversion, the console helpers and the Spinner, the file writers
\* beside a concurrent actor, _compute_term_ratio() called by itself.
solver == <<pc, call, frame, iter, ret, solo, pork>>
ephem == <<eph>>
export == <<mesh, fs, io>>
dates == <<cal>>
console == <<cli, spin>>
racing == <<race>>
kernel == <<tr>>
others == <<eph, mesh, fs, io, cal, cli, spin, race, tr>>
vars == <<pc, call, frame, iter, ret, solo, pork, eph, mesh, fs, io, cal, cli, spin, race, tr>>

Init ==
    /\ pc = "idle"
    /\ call = Null
    /\ frame = Null
    /\ iter = 0
    /\ ret = Null
    /\ solo = Null
    /\ pork = Null
    /\ eph = Null
    /\ mesh = Null
    /\ fs = Null
    /\ io = Null
    /\ cal = Null
    /\ cli = Null
    /\ spin = Null
    /\ race = Null
    /\ tr = Null

\* lambert() is called: lines 181-242 run.
CallLambert ==
    /\ pc = "idle"
    /\ \E a \in LambertInputs :
        /\ call' = a
        /\ frame' = LambertEnter(a)
    /\ pc' = IF frame'.exc # "" THEN "raised" ELSE "loop"
    /\ UNCHANGED <<iter, ret, solo, pork>>
    /\ UNCHANGED others

\* One pass of `for _ in range(max_iter)`.
LambertIterate ==
    /\ pc = "loop"
    /\ iter < frame.max_iter
    /\ ~frame.brk
    /\ frame' = LambertPass(frame)
    /\ iter' = iter + 1
    /\ pc' = IF frame'.exc # "" THEN "raised" ELSE "loop"
    /\ UNCHANGED <<call, ret, solo, pork>>
    /\ UNCHANGED others

\* The loop is left (exhausted or by break): the velocities are returned.
LambertFinish ==
    /\ pc = "loop"
    /\ (iter >= frame.max_iter \/ frame.brk)
    /\ frame' = LambertReturn(frame)
    /\ ret' = [v1 |-> frame'.v1, v2 |-> frame'.v2]
    /\ pc' = IF frame'.exc # "" THEN "raised" ELSE "done"
    /\ UNCHANGED <<call, iter, solo, pork>>
    /\ UNCHANGED others

\* After a batch call has returned, the caller solves one of its elements on
\* its own, as a scalar call or as a batch of one: a whole call of lambert().
CallElement ==
    /\ pc = "done"
    /\ solo = Null
    /\ pork = Null
    /\ Ndim(call.r1_vec) = 2
    /\ call.r1_vec.shape = call.r2_vec.shape
    /\ call.dt.shape = <<call.r1_vec.shape[1]>>
    /\ \E k \in 1..Len(call.dt.data), scalar \in BOOLEAN :
          solo' = [k |-> k, scalar |-> scalar,
                   out |-> LambertCall(IF scalar THEN ScalarOf(call, k)
                                                 ELSE SingleOf(call, k))]
    /\ UNCHANGED <<pc, call, frame, iter, ret, pork>>
    /\ UNCHANGED others

\* generate_porkchop() is called for Earth to Mars: it runs up to its call
\* of lambert() (line 137), whose lines 181-242 run.
GeneratePorkchop ==
    /\ pc = "idle"
    /\ \E g \in PorkInputs, limit \in GridLimits :
          pork' = PorkEnter(g.launch_dates, g.arrival_dates, "earth", "mars", limit)
    /\ call' = IF pork'.exc # "" THEN call ELSE PorkLambertArgs(pork')
    /\ frame' = IF pork'.exc # "" THEN frame ELSE LambertEnter(call')
    /\ pc' = IF pork'.exc # "" THEN "pork_raised"
             ELSE IF frame'.exc # "" THEN "raised" ELSE "loop"
    /\ UNCHANGED <<iter, ret, solo>>
    /\ UNCHANGED others

\* lambert() has returned to generate_porkchop(): lines 141-157 run.
PorkchopFinish ==
    /\ pc = "done"
    /\ pork # Null
    /\ pork' = PorkReturn(pork, ret)
    /\ pc' = IF pork'.exc # "" THEN "pork_raised" ELSE "pork_done"
    /\ UNCHANGED <<call, frame, iter, ret, solo>>
    /\ UNCHANGED others

Next ==
    \/ CallLambert
    \/ LambertIterate
    \/ LambertFinish
    \/ CallElement
    \/ GeneratePorkchop
    \/ PorkchopFinish

Spec == Init /\ [][Next]_vars

(***************************************************************************)
(* The calls of _compute_term_ratio(): for a scalar z and for arrays of    *)
(* one and two z, among them 0, both seams and their neighbours on either  *)
(* side, then for one element of the array by itself.                      *)
(***************************************************************************)
Seam == Dec(1, 1)
ZValues ==
    {0, Tiny, 0 - Tiny, Dec(5, 2), 0 - Dec(5, 2), Seam - Tiny, Seam, Seam + Tiny,
     Tiny - Seam, 0 - Seam, 0 - Seam - Tiny, One, 0 - One, 4 * One, NaN}
ZInputs ==
    {Scal(a) : a \in ZValues}
    \cup {Arr(<<1>>, <<a>>) : a \in ZValues}
    \cup {Arr(<<2>>, <<a, b>>) : a \in ZValues, b \in ZValues}

CallComputeTermRatio ==
    /\ tr = Null
    /\ \E z \in ZInputs :
          tr' = [z |-> z, out |-> ComputeTermRatio(z), i |-> 0, single |-> Null]
    /\ UNCHANGED <<solver, ephem, export, dates, console, racing>>

CallComputeTermRatioAt ==
    /\ tr # Null
    /\ tr.i = 0
    /\ Ndim(tr.z) = 1
    /\ \E i \in 1..Len(tr.z.data) :
          tr' = [tr EXCEPT !.i = i, !.single = ComputeTermRatio(Scal(tr.z.data[i]))]
    /\ UNCHANGED <<solver, ephem, export, dates, console, racing>>

NextTerm == CallComputeTermRatio \/ CallComputeTermRatioAt

SpecTerm == Init /\ [][NextTerm]_vars

(***************************************************************************)
(* The calls of get_ephemeris(): for a scalar date or an array of dates,   *)
(* then, as its test does, the scalar call for one date of the array.      *)
(***************************************************************************)
BodyNames == {"earth", "mars", "venus", ""}
EphDates == {0, Days(100), Days(250)}
MaxDates == 3
DateArrays ==
    {Arr(<<1>>, <<a>>) : a \in EphDates}
    \cup {Arr(<<2>>, <<a, b>>) : a \in EphDates, b \in EphDates}
    \cup {Arr(<<MaxDates>>, [k \in 1..MaxDates |-> a + Days(k - 1)]) : a \in EphDates}
EphInputs == {Scal(a) : a \in EphDates} \cup DateArrays

CallEphemeris ==
    /\ eph = Null
    /\ \E b \in BodyNames, jd \in EphInputs :
          eph' = [body_name |-> b, jd |-> jd, out |-> GetEphemeris(b, jd),
                  kepler |-> EphKepler(EphEnter(b, jd)), i |-> 0, single |-> Null]
    /\ UNCHANGED <<solver, export, dates, console, racing, kernel>>

CallEphemerisAt ==
    /\ eph # Null
    /\ eph.i = 0
    /\ Ndim(eph.jd) = 1
    /\ \E i \in 1..Len(eph.jd.data) :
          eph' = [eph EXCEPT !.i = i,
                             !.single = GetEphemeris(eph.body_name, Scal(eph.jd.data[i]))]
    /\ UNCHANGED <<solver, export, dates, console, racing, kernel>>

NextEph == CallEphemeris \/ CallEphemerisAt

SpecEph == Init /\ [][NextEph]_vars

(***************************************************************************)
(* The calls of jd_from_date(): for a datetime, then, as main() walks its  *)
(* windows by timedelta(days=...), for the following day.                  *)
(***************************************************************************)
Years == {1999, 2000, 2005, 2020}
Hours == {0, 12}
Minutes == {0, 30}
Datetimes ==
    {[year |-> Y, month |-> M, day |-> D, hour |-> h, minute |-> mi] :
        Y \in Years, M \in 1..12, D \in {1, 15, 28, 29, 30, 31}, h \in Hours, mi \in Minutes}

CallJdFromDate ==
    /\ cal = Null
    /\ \E date \in Datetimes :
          /\ date.day <= DaysIn(date.year, date.month)
          /\ cal' = [date |-> date, jd |-> JdFromDate(date), prev |-> Null,
                     back |-> Null]
    /\ UNCHANGED <<solver, ephem, export, console, racing, kernel>>

CallJdNextDay ==
    /\ cal # Null
    /\ cal.prev = Null
    /\ cal.back = Null
    /\ cal' = [date |-> NextDay(cal.date), jd |-> JdFromDate(NextDay(cal.date)),
               prev |-> [date |-> cal.date, jd |-> cal.jd], back |-> Null]
    /\ UNCHANGED <<solver, ephem, export, console, racing, kernel>>

\* date_from_jd() is called for the Julian date that jd_from_date() returned.
CallDateFromJd ==
    /\ cal # Null
    /\ cal.back = Null
    /\ cal' = [cal EXCEPT !.back = DateFromJd(cal.jd)]
    /\ UNCHANGED <<solver, ephem, export, console, racing, kernel>>

NextDate == CallJdFromDate \/ CallJdNextDay \/ CallDateFromJd

SpecDate == Init /\ [][NextDate]_vars

(***************************************************************************)
(* The mesh and its export: a DataGrid and a PorkchopMesh are built,       *)
(* generate_mesh() is called, files are written.                           *)
(***************************************************************************)
MaxAxis == 3
XAxis(nx) == Arr(<<nx>>, [c \in 1..nx |-> (c - 1) * One])
YAxis(ny) == Arr(<<ny>>, [r \in 1..ny |-> (9 + r) * One])

\* The data of a grid: the bump of tests/test_porkchop_mesh.py, a ramp of
\* positive values, values of every kind as a C3 grid holds them, NaN alone.
MixedValues == <<NaN, 0, 0 - One, PInf, 2 * One, NInf>>
DataPatterns == {"bump", "ramp", "mixed", "nan"}
GridData(pattern, nx, ny) ==
    Arr(<<ny, nx>>,
        [k \in 1..(nx * ny) |->
            IF pattern = "bump" THEN (IF k = (nx * ny + 1) \div 2 THEN One ELSE 0)
            ELSE IF pattern = "ramp" THEN k * One
            ELSE IF pattern = "mixed" THEN MixedValues[1 + ((k - 1) % Len(MixedValues))]
            ELSE NaN])
DataGrids ==
    {DataGrid(GridData(p, nx, ny), XAxis(nx), YAxis(ny)) :
        p \in DataPatterns, nx \in 1..MaxAxis, ny \in 1..MaxAxis}
    \cup {DataGrid(GridData("ramp", 2, 2), XAxis(MaxAxis), YAxis(2))}
ZScales == {One, 10 * One, 0}
MorphTypes == {"linear", "log_e", "log_10"}

\* grid = DataGrid(...); mesh = PorkchopMesh(grid)
NewMesh ==
    /\ mesh = Null
    /\ \E grid \in DataGrids :
          mesh' = [self |-> IF grid.exc # "" THEN Null ELSE PorkchopMesh(grid),
                   exc |-> grid.exc, z_scale |-> Null, morph_type |-> Null]
    /\ UNCHANGED <<solver, ephem, dates, fs, io, console, racing, kernel>>

\* mesh.generate_mesh(z_scale, morph_type)
CallGenerateMesh ==
    /\ mesh # Null
    /\ mesh.exc = ""
    /\ mesh.self.vertices = Null
    /\ \E z_scale \in ZScales, morph_type \in MorphTypes :
          mesh' = [mesh EXCEPT !.self = GenerateMesh(mesh.self, z_scale, morph_type),
                               !.z_scale = z_scale, !.morph_type = morph_type]
    /\ UNCHANGED <<solver, ephem, dates, fs, io, console, racing, kernel>>

\* The names of the files: plain, and with the suffixes '.vtp' and '.png'.
Vtp(name) == name \o <<".", "v", "t", "p">>
Png(name) == name \o <<".", "p", "n", "g">>
Txt(name) == name \o <<".", "t", "x", "t">>
Original == [text |-> "original content"]

\* The file system of the tests, with os.O_NOFOLLOW there or not: the working
\* directory /w with a directory d, files, links to files inside and outside
\* it, links to directories and links to nothing, and a directory /x outside.
FileSystem(nofollow) ==
    [cwd |-> <<"w">>,
     nofollow |-> nofollow,
     dirs |-> {<<>>, <<"w">>, <<"w", "d">>, <<"x">>, <<"w", "v.vtp">>, <<"w", "v.png">>},
     files |-> [p \in {<<"w", "e.vtp">>, <<"w", "t.vtp">>, <<"x", "t.vtp">>,
                       <<"w", "e.png">>, <<"w", "t.png">>, <<"x", "t.png">>} |->
                   [content |-> Original, mode |-> "0o644"]],
     links |-> (<<"w", "l.vtp">> :> Vtp(<<"t">>))
               @@ (<<"w", "o.vtp">> :> Vtp(<<"/", "x", "/", "t">>))
               @@ (<<"w", "g.vtp">> :> Vtp(<<"n">>))
               @@ (<<"w", "o.txt">> :> Vtp(<<"/", "x", "/", "t">>))
               @@ (<<"w", "s">> :> <<"/", "x">>)
               @@ (<<"w", "i">> :> <<"d">>)
               @@ (<<"w", "l.png">> :> Png(<<"t">>))
               @@ (<<"w", "o.png">> :> Png(<<"/", "x", "/", "t">>))
               @@ (<<"w", "g.png">> :> Png(<<"n">>))
               @@ (<<"w", "l.txt">> :> Png(<<"t">>))]

Stems ==
    {<<"a">>, <<"e">>, <<"l">>, <<"o">>, <<"g">>, <<"v">>,
     <<".", ".", "/", "a">>, <<"a", ".">>, <<"d", "/", "a">>, <<"d", "/", ".", ".", "/", "a">>,
     <<"s", "/", "a">>, <<"i", "/", "a">>, <<"n", "/", "a">>,
     <<"/", "x", "/", "a">>, <<"/", "w", "/", "a">>}
VtpNames == {Vtp(n) : n \in Stems} \cup {Txt(<<"a">>), Txt(<<"o">>)}
PngNames ==
    {Png(n) : n \in Stems} \cup {Txt(<<"a">>), Txt(<<"l">>), <<"A", ".", "P", "N", "G">>}

\* The tests' setUp: the files are there before a call.
SetUp ==
    /\ fs = Null
    /\ \E nofollow \in BOOLEAN : fs' = FileSystem(nofollow)
    /\ UNCHANGED <<solver, ephem, dates, mesh, io, console, racing, kernel>>

\* What io keeps of a call: its name and arguments, the file system before
\* it, and its outcome.
Called(op, filename, mesh_obj, out) ==
    [op |-> op, filename |-> filename, mesh |-> mesh_obj, before |-> fs,
     exc |-> out.exc, msg |-> out.msg,
     open_args |-> out.open_args, savefig_arg |-> out.savefig_arg]

\* write_vtp(filename, mesh)
CallWriteVtp ==
    /\ fs # Null
    /\ io = Null
    /\ mesh # Null
    /\ mesh.exc = ""
    /\ \E filename \in VtpNames :
          /\ io' = Called("write_vtp", filename, mesh.self, WriteVtp(filename, mesh.self, fs))
          /\ fs' = WriteVtp(filename, mesh.self, fs).disk
    /\ UNCHANGED <<solver, ephem, dates, mesh, console, racing, kernel>>

\* plot_porkchop(..., filename): the figure is drawn, then saved.
CallPlotPorkchop ==
    /\ fs # Null
    /\ io = Null
    /\ mesh = Null
    /\ \E filename \in PngNames :
          /\ io' = Called("plot_porkchop", filename, Null, PlotSave(filename, fs))
          /\ fs' = PlotSave(filename, fs).disk
    /\ UNCHANGED <<solver, ephem, dates, mesh, console, racing, kernel>>

NextExport == NewMesh \/ CallGenerateMesh \/ SetUp \/ CallWriteVtp \/ CallPlotPorkchop

SpecExport == Init /\ [][NextExport]_vars

(***************************************************************************)
(* write_vtp() and plot_porkchop() beside another process that works on    *)
(* the same file system: between any two system calls of the writer the    *)
(* other process may replace, once, a name on the way to the file (the     *)
(* file's own name or a directory of the filename) by a symbolic link.     *)
(* The writer's checks (realpath, commonpath) come first, its os.open and  *)
(* the writing after them.                                                 *)
(***************************************************************************)
RaceMesh ==
    GenerateMesh(PorkchopMesh(DataGrid(GridData("ramp", 2, 2), XAxis(2), YAxis(2))),
                 One, "linear")
RaceNames == {<<"a">>, <<"e">>, <<"d", "/", "a">>, <<"l">>}
RaceTargets == {<<"/", "x">>, <<"/", "x", "/", "t", ".", "v", "t", "p">>, <<"t", ".", "v", "t", "p">>}

\* rm -rf path; ln -s target path
Replaced(disk, path, target) ==
    [disk EXCEPT !.dirs = @ \ {path},
                 !.files = [q \in (DOMAIN @) \ {path} |-> @[q]],
                 !.links = (path :> target) @@ @]

RaceCall ==
    /\ race = Null
    /\ \E op \in {"write_vtp", "plot_porkchop"}, name \in RaceNames, nofollow \in BOOLEAN :
          race' = [op |-> op,
                   filename |-> IF op = "write_vtp" THEN Vtp(name) ELSE Png(name),
                   before |-> FileSystem(nofollow), disk |-> FileSystem(nofollow),
                   stage |-> "called", replaced |-> <<>>, exc |-> ""]
    /\ UNCHANGED <<solver, ephem, export, dates, console, kernel>>

\* The writer runs up to its os.open: the checks.
RaceCheck ==
    /\ race # Null
    /\ race.stage = "called"
    /\ LET refusal == IF race.op = "write_vtp"
                       THEN VtpChecks(race.filename, RaceMesh, race.disk)
                       ELSE PngChecks(race.filename, race.disk)
       IN race' = IF refusal = Null THEN [race EXCEPT !.stage = "checked"]
                  ELSE [race EXCEPT !.stage = "raised", !.exc = refusal.exc]
    /\ UNCHANGED <<solver, ephem, export, dates, console, kernel>>

\* The other process replaces one name of the filename by a link.
RaceReplace ==
    /\ race # Null
    /\ race.stage \in {"called", "checked"}
    /\ race.replaced = <<>>
    /\ \E n \in 1..Len(Split(race.filename)), target \in RaceTargets :
          race' = [race EXCEPT
                     !.disk = Replaced(race.disk,
                                       race.disk.cwd \o SubSeq(Split(race.filename), 1, n),
                                       target),
                     !.replaced = race.disk.cwd \o SubSeq(Split(race.filename), 1, n)]
    /\ UNCHANGED <<solver, ephem, export, dates, console, kernel>>

\* The writer opens the file and writes it.
RaceOpen ==
    /\ race # Null
    /\ race.stage = "checked"
    /\ LET out == IF race.op = "write_vtp"
                   THEN VtpOpenAndWrite(race.filename, RaceMesh, race.disk)
                   ELSE PngOpenAndSave(race.filename, race.disk)
       IN race' = [race EXCEPT !.stage = IF out.exc = "" THEN "written" ELSE "raised",
                               !.exc = out.exc, !.disk = out.disk]
    /\ UNCHANGED <<solver, ephem, export, dates, console, kernel>>

NextRace == RaceCall \/ RaceCheck \/ RaceReplace \/ RaceOpen

SpecRace == Init /\ [][NextRace]_vars

(***************************************************************************)
(* The calls of the console helpers: format_duration() for whole and half  *)
(* days, get_c3_rating() and then get_c3_color() for one value.            *)
(***************************************************************************)
MaxHalfDays == 1600
C3Values == {NaN, PInf, NInf} \cup {k * (One \div 2) : k \in (0 - 4)..80}

CallFormatDuration ==
    /\ cli = Null
    /\ \E n \in (0 - 4)..MaxHalfDays, short \in BOOLEAN :
          cli' = [op |-> "format_duration", days |-> n * (Cent \div 2), short |-> short,
                  out |-> FormatDuration(n * (Cent \div 2), short)]
    /\ UNCHANGED <<solver, ephem, export, dates, spin, racing, kernel>>

CallGetC3Rating ==
    /\ cli = Null
    /\ \E value \in C3Values :
          cli' = [op |-> "get_c3_rating", value |-> value, out |-> GetC3Rating(value),
                  color |-> ""]
    /\ UNCHANGED <<solver, ephem, export, dates, spin, racing, kernel>>

CallGetC3Color ==
    /\ cli # Null
    /\ cli.op = "get_c3_rating"
    /\ cli.color = ""
    /\ cli' = [cli EXCEPT !.color = GetC3Color(cli.value)]
    /\ UNCHANGED <<solver, ephem, export, dates, spin, racing, kernel>>

\* A Spinner around a body: the thread of the `with` statement and the thread
\* of _spin take their steps in any order; the body ends normally, by a
\* KeyboardInterrupt or by another exception.  _spin writes at most
\* MaxFrames frames.
MaxFrames == 4
BodyOutcomes == {"", "KeyboardInterrupt", "ValueError"}
FramesWritten(s) == Cardinality({k \in 1..Len(s.stdout) : s.stdout[k] = "frame"})

NewSpinner ==
    /\ spin = Null
    /\ \E is_tty \in BOOLEAN : spin' = SpinnerInit(is_tty)
    /\ UNCHANGED <<solver, ephem, export, dates, cli, racing, kernel>>

EnterSpinner ==
    /\ spin # Null
    /\ spin.main = "constructed"
    /\ spin' = SpinnerEnter(spin)
    /\ UNCHANGED <<solver, ephem, export, dates, cli, racing, kernel>>

BodyEnds ==
    /\ spin # Null
    /\ spin.main = "body"
    /\ \E e \in BodyOutcomes : spin' = [spin EXCEPT !.exc_type = e, !.main = "exit"]
    /\ UNCHANGED <<solver, ephem, export, dates, cli, racing, kernel>>

ExitStop ==
    /\ spin # Null
    /\ spin.main = "exit"
    /\ spin' = SpinnerExitStop(spin)
    /\ UNCHANGED <<solver, ephem, export, dates, cli, racing, kernel>>

ExitJoin ==
    /\ spin # Null
    /\ spin.main = "join"
    /\ JoinReturns(spin)
    /\ spin' = SpinnerExitJoin(spin)
    /\ UNCHANGED <<solver, ephem, export, dates, cli, racing, kernel>>

ExitStatus ==
    /\ spin # Null
    /\ spin.main = "status"
    /\ spin' = WithLeaves(SpinnerExitStatus(spin))
    /\ UNCHANGED <<solver, ephem, export, dates, cli, racing, kernel>>

ThreadTest ==
    /\ spin # Null
    /\ spin.thread = "test"
    /\ spin.stop_event \/ FramesWritten(spin) < MaxFrames
    /\ spin' = SpinTest(spin)
    /\ UNCHANGED <<solver, ephem, export, dates, cli, racing, kernel>>

ThreadWrite ==
    /\ spin # Null
    /\ spin.thread = "write"
    /\ spin' = SpinWrite(spin)
    /\ UNCHANGED <<solver, ephem, export, dates, cli, racing, kernel>>

ThreadSleep ==
    /\ spin # Null
    /\ spin.thread = "sleep"
    /\ spin' = SpinSleep(spin)
    /\ UNCHANGED <<solver, ephem, export, dates, cli, racing, kernel>>

NextSpinner ==
    \/ NewSpinner
    \/ EnterSpinner
    \/ BodyEnds
    \/ ExitStop
    \/ ExitJoin
    \/ ExitStatus
    \/ ThreadTest
    \/ ThreadWrite
    \/ ThreadSleep

SpecSpinner == Init /\ [][NextSpinner]_vars

NextCli == CallFormatDuration \/ CallGetC3Rating \/ CallGetC3Color

SpecCli == Init /\ [][NextCli]_vars

(***************************************************************************)
(* Vocabulary of the properties.                                           *)
(***************************************************************************)
\* The call is a scalar call: 1-D positions and a 0-d time of flight.
IsScalarCall(a) == Ndim(a.r1_vec) = 1 /\ Ndim(a.r2_vec) = 1 /\ Ndim(a.dt) = 0

\* The call is a batch whose arrays all have the full batch shape.
IsFullBatch(a) ==
    /\ Ndim(a.r1_vec) >= 2
    /\ a.r1_vec.shape = a.r2_vec.shape
    /\ a.dt.shape = SubSeq(a.r1_vec.shape, 1, Ndim(a.r1_vec) - 1)

FullShape(a) == IsScalarCall(a) \/ IsFullBatch(a)

\* The elements of the running call, and component c of row k of a (..., 3) array.
Elems == 1..Len(frame.dt.data)
Row(vec, k, c) == vec.data[3 * (k - 1) + c]

\* Element k has |t1 - dt| < tol: the convergence test of the loop.
MeetsTol(fr, k) == FLt(FAbs(FSub(fr.t1.data[k], fr.dt.data[k])), fr.tol)

\* y of element k at its z1, by lines 320-324 on single numbers.
ElemTerm(z) == ComputeTermRatio(Scal(z)).term.data[1]
ElemY(fr, k) ==
    FAdd(FAdd(fr.r1.data[k], fr.r2.data[k]), FMul(fr.A.data[k], ElemTerm(fr.z1.data[k])))
\* The velocities of element k from its y, by lines 328-338 on single numbers.
ElemG(fr, k, yk) == FMul(fr.A.data[k], FSqrt(FDiv(yk, fr.mu)))
ElemV1(fr, k, c, yk) ==
    FDiv(FSub(Row(fr.r2_vec, k, c),
              FMul(FSub(One, FDiv(yk, fr.r1.data[k])), Row(fr.r1_vec, k, c))),
         ElemG(fr, k, yk))
ElemV2(fr, k, c, yk) ==
    FDiv(FSub(FMul(FSub(One, FDiv(yk, fr.r2.data[k])), Row(fr.r2_vec, k, c)),
              Row(fr.r1_vec, k, c)),
         ElemG(fr, k, yk))

\* The call returned, for element k, the velocities of the point z1 of fr.
ReturnedAt(fr, out, vel, k) ==
    /\ out.y.data[k] = ElemY(fr, k)
    /\ \A c \in 1..3 : /\ Row(vel.v1, k, c) = ElemV1(fr, k, c, out.y.data[k])
                       /\ Row(vel.v2, k, c) = ElemV2(fr, k, c, out.y.data[k])

\* A step of the model that is one pass of the secant loop.
IsPass == pc = "loop" /\ pc' = "loop" /\ iter' = iter + 1

\* z0, z1, t0, t1 of element k are the same in both records of locals.
SameState(fa, fb, k) ==
    /\ fa.z0.data[k] = fb.z0.data[k]
    /\ fa.z1.data[k] = fb.z1.data[k]
    /\ fa.t0.data[k] = fb.t0.data[k]
    /\ fa.t1.data[k] = fb.t1.data[k]

(***************************************************************************)
(* Properties of lambert().                                                *)
(***************************************************************************)
\* C1: once an element meets |t1 - dt| < tol at the start of a pass (or is
\* already flagged converged), every later step keeps its converged flag set
\* and leaves its z0, z1, t0, t1 as they are, up to and including the return;
\* the velocities returned for it are those of that z1.
C1_ConvergedFrozen ==
    [][/\ IsPass =>
            \A k \in Elems :
                (frame.converged.data[k] \/ MeetsTol(frame, k)) =>
                    frame'.converged.data[k] /\ SameState(frame, frame', k)
       /\ (pc = "loop" /\ pc' = "done" /\ FullShape(call)) =>
            \A k \in Elems :
                frame.converged.data[k] =>
                    /\ frame'.converged.data[k] /\ SameState(frame, frame', k)
                    /\ ReturnedAt(frame, frame', ret', k)]_vars

\* C1 witness: after three passes an element is converged while another one
\* is still being updated.
C1_Witness ==
    /\ pc = "loop" /\ iter >= 3
    /\ \E k \in Elems : frame.converged.data[k]
    /\ \E j \in Elems : ~frame.converged.data[j] /\ frame.z1.data[j] # frame.z0.data[j]

\* The time of flight of element k at the seed z1 = 1 (line 239).
SeedT1(fr, k) ==
    ComputeTInternal(Scal(One), Scal(fr.r_sum.data[k]), Scal(fr.A.data[k]),
                     fr.inv_sqrt_mu).data[1]

\* The position of element k among the active elements of the pass.
ActivePos(fr, k) == Cardinality({j \in 1..k : fr.active.data[j]})

\* C2: in a pass, an active element whose secant step gives a z with an
\* undefined time of flight (NaN) has z1 and t1 reset, within that pass, to
\* the z1 and t1 it had before the pass; that point has a finite time of
\* flight and y > 0 when the seed z1 = 1 had; every other active element
\* keeps the z and the time of flight of its step, and no inactive element
\* is changed.
C2_RollbackToPrevious ==
    [][IsPass /\ ~frame'.brk =>
          \A k \in Elems :
              IF ~frame'.active.data[k] THEN SameState(frame, frame', k)
              ELSE /\ frame'.z0.data[k] = frame.z1.data[k]
                   /\ frame'.t0.data[k] = frame.t1.data[k]
                   /\ IF IsNaN(frame'.t_val_a.data[ActivePos(frame', k)])
                      THEN /\ frame'.z1.data[k] = frame.z1.data[k]
                           /\ frame'.t1.data[k] = frame.t1.data[k]
                           /\ (FullShape(call) /\ IsFinite(SeedT1(frame, k))) =>
                                 /\ IsFinite(frame'.t1.data[k])
                                 /\ FGt(ElemY(frame', k), 0)
                      ELSE /\ frame'.z1.data[k] = frame'.z_new_a.data[ActivePos(frame', k)]
                           /\ frame'.t1.data[k] = frame'.t_val_a.data[ActivePos(frame', k)]]_vars

\* C2 witness: after a pass, an active element whose step had an undefined
\* time of flight sits on its previous point, which has a defined one, while
\* another active element has moved on.
C2_Witness ==
    /\ pc = "loop" /\ iter >= 1 /\ ~frame.brk
    /\ \E k \in Elems :
          /\ frame.active.data[k]
          /\ IsNaN(frame.t_val_a.data[ActivePos(frame, k)])
          /\ frame.z1.data[k] = frame.z0.data[k]
          /\ IsFinite(frame.t1.data[k])
    /\ \E j \in Elems :
          /\ frame.active.data[j]
          /\ frame.z1.data[j] # frame.z0.data[j]

\* The call has mu <= 0 or some dt <= 0.
Malformed(a) == a.mu <= 0 \/ \E k \in 1..Len(a.dt.data) : a.dt.data[k] <= 0

\* C3: a call with mu <= 0 or dt <= 0 does not return ordinary velocities: it
\* raises, or every velocity component it returns is non-finite.
C3_MalformedRejected ==
    (pc = "done" /\ Malformed(call)) =>
        \A i \in 1..Len(ret.v1.data) :
            ~IsFinite(ret.v1.data[i]) /\ ~IsFinite(ret.v2.data[i])

\* C4: an element flagged converged has a defined time of flight and
\* y = r1 + r2 + A*term(z1) > 0 at its z1, during the loop and at the return.
C4_ConvergedFeasible ==
    (pc \in {"loop", "done"} /\ FullShape(call)) =>
        \A k \in Elems :
            frame.converged.data[k] =>
                /\ ~IsNaN(frame.t1.data[k])
                /\ FGt(ElemY(frame, k), 0)
                /\ pc = "done" => FGt(frame.y.data[k], 0)

\* C4 witness: a call returns with a converged element beside one whose time
\* of flight is undefined.
C4_Witness ==
    /\ pc = "done" /\ IsFullBatch(call)
    /\ \E k \in Elems : frame.converged.data[k]
    /\ \E j \in Elems : IsNaN(frame.t1.data[j]) /\ ~frame.converged.data[j]

\* Element k of the returned call has no usable solution: no z with a
\* defined time of flight was found (t0 and t1 are NaN), or A is 0.
Degenerate(fr, k) ==
    \/ IsNaN(fr.t0.data[k]) /\ IsNaN(fr.t1.data[k])
    \/ fr.A.data[k] = 0

\* Every component of the velocities returned for element k is inf or NaN.
NonFiniteRow(k) ==
    \A c \in 1..3 : ~IsFinite(Row(ret.v1, k, c)) /\ ~IsFinite(Row(ret.v2, k, c))

\* The element solved on its own got the velocities the batch returned for it.
SoloAgrees ==
    /\ solo.out.exc = ""
    /\ solo.out.v1.shape = (IF solo.scalar THEN <<3>> ELSE <<1, 3>>)
    /\ solo.out.v2.shape = solo.out.v1.shape
    /\ \A c \in 1..3 : /\ solo.out.v1.data[c] = Row(ret.v1, solo.k, c)
                       /\ solo.out.v2.data[c] = Row(ret.v2, solo.k, c)

\* C5: an element for which no feasible z is ever found, and an element with
\* A = 0, come back with every component of v1 and v2 non-finite, never with
\* a finite best-effort value; the call does not raise because of them, and
\* the other elements of the batch get what they get when solved alone.
C5_DegenerateNonFinite ==
    /\ pc = "raised" => ~IsFullBatch(call)
    /\ (pc = "done" /\ FullShape(call)) =>
          /\ \A k \in Elems : Degenerate(frame, k) => NonFiniteRow(k)
          /\ (solo # Null /\ \E j \in Elems \ {solo.k} : Degenerate(frame, j)) => SoloAgrees

\* C5 witness: a batch returned with an element that never had a feasible z,
\* or one with A = 0, beside a converged element with finite velocities,
\* which was then solved alone.
C5_Witness ==
    /\ pc = "done" /\ IsFullBatch(call) /\ solo # Null
    /\ \E j \in Elems \ {solo.k} :
          /\ Degenerate(frame, j)
          /\ frame.A.data[j] = 0 \/ iter >= 3
    /\ frame.converged.data[solo.k]
    /\ \A c \in 1..3 : IsFinite(Row(ret.v1, solo.k, c))
    /\ \E c \in 1..3 : Row(ret.v1, solo.k, c) # 0

\* C6: the velocities returned for an element depend on that element's inputs
\* only: solved as a scalar call, or as a batch of one, it gets exactly what
\* it gets inside the batch.
C6_ElementIndependent == (pc = "done" /\ solo # Null) => SoloAgrees

\* C6 witness: an element of a batch whose two elements differ, and whose
\* other element had a step rolled back, solved alone after three passes.
C6_Witness ==
    /\ pc = "done" /\ solo # Null /\ iter >= 3
    /\ \E j \in Elems \ {solo.k} :
          /\ call.dt.data[j] # call.dt.data[solo.k]
          /\ AnyTrue(frame.nan_mask_sub)
          /\ ~frame.active.data[solo.k] \/ ~IsNaN(frame.t_val_a.data[ActivePos(frame, solo.k)])
    /\ \A c \in 1..3 : IsFinite(Row(ret.v1, solo.k, c))

\* The batch shapes of the position arrays, and the full broadcast shape.
BatchShape(vec) == SubSeq(vec.shape, 1, Ndim(vec) - 1)
BroadcastCompatible(a) ==
    /\ BOk(BatchShape(a.r1_vec), BatchShape(a.r2_vec))
    /\ BOk(BShape(BatchShape(a.r1_vec), BatchShape(a.r2_vec)), a.dt.shape)
BroadcastShape(a) ==
    BShape(BShape(BatchShape(a.r1_vec), BatchShape(a.r2_vec)), a.dt.shape)

\* C7: a call whose r1_vec, r2_vec and dt are broadcast-compatible returns,
\* without raising, velocities of the full broadcast shape (plus the axis of
\* the three components).
C7_BroadcastAccepted ==
    (pc \in {"done", "raised"} /\ BroadcastCompatible(call)) =>
        /\ pc = "done"
        /\ ret.v1.shape = BroadcastShape(call) \o <<3>>
        /\ ret.v2.shape = BroadcastShape(call) \o <<3>>

\* C8: lambert() does not raise on finite inputs of the full batch shape, and
\* an element that is not converged when the loop ends is returned the
\* velocities computed from its last z1.
C8_BestEffortNoRaise ==
    /\ pc = "raised" => ~FullShape(call)
    /\ (pc = "done" /\ FullShape(call)) =>
          \A k \in Elems :
              ~frame.converged.data[k] =>
                  ReturnedAt(frame, frame, ret, k)

\* C8 witness: a call that used all its passes returns finite, non-zero
\* velocities for an element that did not converge and whose last two points
\* differ, beside an element with another time of flight.
C8_Witness ==
    /\ pc = "done" /\ IsFullBatch(call) /\ iter = frame.max_iter /\ iter >= 3
    /\ \E k \in Elems :
          /\ ~frame.converged.data[k]
          /\ frame.z1.data[k] # frame.z0.data[k]
          /\ ElemTerm(frame.z1.data[k]) # ElemTerm(frame.z0.data[k])
          /\ \A c \in 1..3 : IsFinite(Row(ret.v1, k, c))
          /\ \E c \in 1..3 : Row(ret.v1, k, c) # 0
    /\ \E i \in Elems, j \in Elems : call.dt.data[i] # call.dt.data[j]

(***************************************************************************)
(* Properties of generate_porkchop().                                      *)
(***************************************************************************)
\* The cells of the grid that generate_porkchop() returned.
Cells == 1..Len(pork.C3.data)

\* The Lambert element of a cell did not converge, or has no y > 0.
LowConfidence(k) ==
    ~frame.converged.data[k] \/ ~FGt(frame.y.data[k], 0)

\* C9: in what generate_porkchop() returns, every cell whose Lambert element
\* did not converge or is non-physical has NaN for C3 and for the arrival
\* V-infinity.
C9_LowConfidenceMasked ==
    pc = "pork_done" =>
        \A k \in Cells :
            LowConfidence(k) => IsNaN(pork.C3.data[k]) /\ IsNaN(pork.Vinf_arr.data[k])

\* The position lambert() is given for cell [j, i] (0-based) as departure and
\* as arrival position, component c, by broadcasting.
CellR1(j, i, c) == call.r1_vec.data[Ravel(<<j, i, c>>, call.r1_vec.shape)]
CellR2(j, i, c) == call.r2_vec.data[Ravel(<<j, i, c>>, call.r2_vec.shape)]

\* Component c of the position get_ephemeris() returned for date n of its N
\* dates: r_arr holds its transpose.
EphPosition(r_arr, n, c) == Transpose(r_arr).data[Ravel(<<n, c>>, Transpose(r_arr).shape)]

\* C10: for non-empty date lists, generate_porkchop() returns without raising;
\* C3, Vinf and TOF have shape (n_arrival, n_launch); and cell [j, i] is
\* solved from the departure body's position at launch date i and the
\* arrival body's position at arrival date j.
C10_GridOfAllPairs ==
    (pork # Null /\ pc \in {"raised", "pork_raised", "pork_done"}) =>
        /\ pc = "pork_done"
        /\ pork.C3.shape = <<pork.n_arrival, pork.n_launch>>
        /\ pork.Vinf_arr.shape = <<pork.n_arrival, pork.n_launch>>
        /\ pork.TOF.shape = <<pork.n_arrival, pork.n_launch>>
        /\ \A j \in 0..(pork.n_arrival - 1), i \in 0..(pork.n_launch - 1), c \in 0..2 :
              /\ CellR1(j, i, c) = EphPosition(pork.r1_arr, i, c)
              /\ CellR2(j, i, c) = EphPosition(pork.r2_arr, j, c)


(***************************************************************************)
(* Properties of get_ephemeris().                                          *)
(***************************************************************************)
\* The bodies get_ephemeris() knows.
KnownBody(b) == b \in {"earth", "mars"}

\* C11: for 'earth' and 'mars', a scalar date gives position and velocity of
\* shape (3,); an array of N dates gives arrays of shape (3, N) whose column
\* i is what the scalar call for date i returns.
C11_ColumnsMatchScalar ==
    (eph # Null /\ KnownBody(eph.body_name)) =>
        /\ eph.out.exc = ""
        /\ Ndim(eph.jd) = 0 =>
              eph.out.r_vec.shape = <<3>> /\ eph.out.v_vec.shape = <<3>>
        /\ Ndim(eph.jd) = 1 =>
              /\ eph.out.r_vec.shape = <<3, Len(eph.jd.data)>>
              /\ eph.out.v_vec.shape = <<3, Len(eph.jd.data)>>
              /\ eph.i # 0 =>
                    /\ eph.single.r_vec.shape = <<3>>
                    /\ eph.single.v_vec.shape = <<3>>
                    /\ \A c \in 1..3 :
                          /\ eph.out.r_vec.data[(c - 1) * Len(eph.jd.data) + eph.i]
                                = eph.single.r_vec.data[c]
                          /\ eph.out.v_vec.data[(c - 1) * Len(eph.jd.data) + eph.i]
                                = eph.single.v_vec.data[c]

\* C12: for a body name other than 'earth' and 'mars', get_ephemeris()
\* raises ValueError and returns neither a position nor a velocity, for a
\* scalar date and for an array of dates.
C12_UnknownBodyRaises ==
    (eph # Null /\ ~KnownBody(eph.body_name)) =>
        /\ eph.out.exc = "ValueError"
        /\ eph.out.r_vec = Unset /\ eph.out.v_vec = Unset
        /\ eph.single # Null =>
              /\ eph.single.exc = "ValueError"
              /\ eph.single.r_vec = Unset /\ eph.single.v_vec = Unset

\* C12 witness: an unknown body was asked for an array of three dates, then
\* for the second of them alone, and both calls raised.
C12_Witness ==
    /\ eph # Null
    /\ eph.body_name = "venus"
    /\ eph.jd.shape = <<MaxDates>>
    /\ eph.out.exc = "ValueError"
    /\ eph.i = 2
    /\ eph.single.exc = "ValueError"


(***************************************************************************)
(* Properties of generate_porkchop().                                      *)
(***************************************************************************)
\* The place of cell [j, i] in a returned grid, and its time of flight in
\* days: arrival date j minus launch date i.
CellAt(j, i) == (j - 1) * pork.n_launch + i
CellDays(j, i) == FSub(pork.arrival_dates[j], pork.launch_dates[i])

C14_GridSizeLimit ==
    pork # Null =>
        IF pork.n_launch * pork.n_arrival > pork.max_grid_size
        THEN /\ pc = "pork_raised"
             /\ pork.exc = "ValueError"
             /\ pork.C3 = Unset /\ pork.Vinf_arr = Unset /\ pork.TOF = Unset
             /\ pork.jd1_arr = Unset /\ pork.r1_arr = Unset /\ pork.r2_arr = Unset
             /\ call = Null /\ frame = Null
             /\ Contains(pork.msg, <<"Grid", "size", "too", "large">>)
        ELSE pork.msg = <<>>


(***************************************************************************)
(* Properties of lambert() at its edges.                                   *)
(***************************************************************************)
\* Element k of the call has r2 = r1.
Coincident(a, k) == \A c \in 1..3 : Row(a.r1_vec, k, c) = Row(a.r2_vec, k, c)
HasCoincident(a) == \E k \in 1..Len(a.dt.data) : Coincident(a, k)

\* Every component of the velocities returned for element k is finite.
FiniteRow(k) ==
    \A c \in 1..3 : IsFinite(Row(ret.v1, k, c)) /\ IsFinite(Row(ret.v2, k, c))

\* C15: a call with r1 = r2 in an element does not raise, and the element
\* gets one of two outcomes: velocities that are non-finite in every
\* component (no solution), or velocities that are finite in every component.
C15_CoincidentReturns ==
    (call # Null /\ FullShape(call) /\ HasCoincident(call)) =>
        /\ pc # "raised"
        /\ pc = "done" =>
              \A k \in Elems : Coincident(call, k) => NonFiniteRow(k) \/ FiniteRow(k)

\* C15 witness: a scalar call with r1 = r2 has used all its passes, its last
\* one with a zero secant denominator, and returned finite velocities along
\* r1, opposite at the two ends.
C15_Witness ==
    /\ pc = "done"
    /\ pork = Null
    /\ IsScalarCall(call)
    /\ Coincident(call, 1)
    /\ iter = MaxIter
    /\ frame.t1.data[1] = frame.t0.data[1]
    /\ FiniteRow(1)
    /\ Row(ret.v1, 1, 1) # 0
    /\ Row(ret.v2, 1, 1) = 0 - Row(ret.v1, 1, 1)

\* C16: with max_iter = 0 no pass of the loop runs, the call does not raise,
\* and every element is returned the velocities of lines 320-338 at the
\* seed z1 = 1.
C16_NoPassSeedReturned ==
    (call # Null /\ FullShape(call) /\ call.max_iter = 0) =>
        /\ pc # "raised"
        /\ iter = 0
        /\ \A k \in Elems : frame.z0.data[k] = 0 /\ frame.z1.data[k] = One
        /\ pc = "done" => \A k \in Elems : ReturnedAt(frame, frame, ret, k)

\* C16 witness: a batch of two elements returned with max_iter = 0, with
\* finite velocities that differ between the elements.
C16_Witness ==
    /\ pc = "done"
    /\ call.max_iter = 0
    /\ IsFullBatch(call)
    /\ Len(frame.dt.data) = 2
    /\ FiniteRow(1) /\ FiniteRow(2)
    /\ Row(ret.v1, 1, 1) # Row(ret.v1, 2, 1)

\* The Julian date of a Gregorian datetime by Fliegel and Van Flandern's
\* formula, whose divisions truncate toward zero, in the unit of JdFromDate.
TrueJulianDate(date) ==
    LET Y == date.year
        M == date.month
        D == date.day
        h == ((date.hour * 60 + date.minute) * JdUnit) \div (24 * 60)
        JDN == TDiv(1461 * (Y + 4800 + TDiv(M - 14, 12)), 4)
               + TDiv(367 * (M - 2 - 12 * TDiv(M - 14, 12)), 12)
               - TDiv(3 * TDiv(Y + 4900 + TDiv(M - 14, 12), 100), 4)
               + D - 32075
    IN JDN * JdUnit + (h - 12 * (JdUnit \div 24))

J2000Noon == [year |-> 2000, month |-> 1, day |-> 1, hour |-> 12, minute |-> 0]

\* C20: jd_from_date returns the true Julian Date of every Gregorian datetime;
\* 2000-01-01 12:00 maps to 2451545.0, the J2000 of get_ephemeris, and
\* consecutive calendar days map to values exactly 1.0 apart.
C20_TrueJulianDate ==
    cal # Null =>
        /\ cal.jd = TrueJulianDate(cal.date)
        /\ (cal.date = J2000Noon => cal.jd = 2451545 * JdUnit)
        /\ (cal.prev # Null => cal.jd - cal.prev.jd = JdUnit)


\* generate_mesh() has run on the mesh.
Generated == mesh # Null /\ mesh.exc = "" /\ mesh.self.vertices # Null

\* Row k (from 0) of a 2-D array.
RowOf(a, k) == SubSeq(a.data, k * a.shape[2] + 1, (k + 1) * a.shape[2])

\* The triangles of grid cell q (from 0, row by row) of a grid nx wide.
CellT1(q, nx) ==
    <<(q \div (nx - 1)) * nx + (q % (nx - 1)),
      (q \div (nx - 1)) * nx + (q % (nx - 1)) + nx,
      (q \div (nx - 1)) * nx + (q % (nx - 1)) + 1>>
CellT2(q, nx) ==
    <<(q \div (nx - 1)) * nx + (q % (nx - 1)) + 1,
      (q \div (nx - 1)) * nx + (q % (nx - 1)) + nx,
      (q \div (nx - 1)) * nx + (q % (nx - 1)) + nx + 1>>
Distinct3(t) == t[1] # t[2] /\ t[1] # t[3] /\ t[2] # t[3]

\* C19: after generate_mesh on an nx-by-ny grid, vertices has nx*ny rows, row
\* r*nx + c being (x_axis[c], y_axis[r], z_scale * morphed[r, c]); indices has
\* 2*(nx-1)*(ny-1) triangles with every index in [0, nx*ny); triangles 2q and
\* 2q+1 are (v0, v2, v1) and (v1, v2, v3) of cell q, each of three distinct
\* vertices.
C19_MeshLayout ==
    Generated =>
        LET nx == Size(mesh.self.grid.x_axis)
            ny == Size(mesh.self.grid.y_axis)
            V == mesh.self.vertices
            I == mesh.self.indices
        IN /\ V.err = "" /\ V.shape = <<nx * ny, 3>>
           /\ \A r \in 0..(ny - 1), c \in 0..(nx - 1) :
                 RowOf(V, r * nx + c) =
                    <<mesh.self.grid.x_axis.data[c + 1],
                      mesh.self.grid.y_axis.data[r + 1],
                      FMul(mesh.z_scale, mesh.self.scalars.data[r * nx + c + 1])>>
           /\ I.err = "" /\ I.shape = <<2 * (nx - 1) * (ny - 1), 3>>
           /\ \A k \in 1..Size(I) : I.data[k] \in 0..(nx * ny - 1)
           /\ \A q \in 0..((nx - 1) * (ny - 1) - 1) :
                 /\ RowOf(I, 2 * q) = CellT1(q, nx)
                 /\ RowOf(I, 2 * q + 1) = CellT2(q, nx)
                 /\ Distinct3(RowOf(I, 2 * q))
                 /\ Distinct3(RowOf(I, 2 * q + 1))

\* A generated mesh of a grid wider than high, with triangles, scaled and
\* morphed.
C19_Witness ==
    /\ Generated
    /\ Size(mesh.self.grid.x_axis) = 3
    /\ Size(mesh.self.grid.y_axis) = 2
    /\ mesh.z_scale = 10 * One
    /\ mesh.morph_type = "log_e"
    /\ Size(mesh.self.indices) = 12
    /\ \E k \in 1..6 : mesh.self.scalars.data[k] # mesh.self.grid.data.data[k]

\* The filename resolves, links followed, to the working directory or below.
Inside(filename, disk) ==
    /\ Len(Realpath(filename, disk)) >= Len(RealCwd(disk))
    /\ SubSeq(Realpath(filename, disk), 1, Len(RealCwd(disk))) = RealCwd(disk)

\* The directory of the filename, links followed, and the path its last name
\* has there.
DirOf(filename, disk) ==
    Resolve(IF IsAbs(filename) THEN <<>> ELSE disk.cwd,
            SubSeq(Split(filename), 1, Len(Split(filename)) - 1), disk.links)
FinalPath(filename, disk) ==
    Append(DirOf(filename, disk), Split(filename)[Len(Split(filename))])
FinalIsLink(filename, disk) == FinalPath(filename, disk) \in DOMAIN disk.links

\* The filename names a file, there or not yet, in a directory that is there:
\* no symbolic link and no directory.
Regular(filename, disk) ==
    /\ DirOf(filename, disk) \in disk.dirs
    /\ ~FinalIsLink(filename, disk)
    /\ FinalPath(filename, disk) \notin disk.dirs

\* A condition under which write_vtp is to refuse the call made.
VtpRefused ==
    \/ ~Inside(io.filename, io.before)
    \/ io.mesh.vertices = Null
    \/ io.mesh.indices = Null
    \/ ~EndsWith(io.filename, Vtp(<<>>))
    \/ Contains(io.filename, <<".", ".">>)

\* The call made wrote the mesh to the file the filename resolves to.
VtpWritten ==
    /\ io.exc = ""
    /\ Realpath(io.filename, io.before) \in DOMAIN fs.files
    /\ fs.files[Realpath(io.filename, io.before)].content = VtpContent(io.mesh)

Counted(n, noun, abbreviation, short) ==
    ToString(n) \o " "
    \o (IF short THEN abbreviation ELSE IF n = 1 THEN noun ELSE noun \o "s")

\* The month-and-day and the year-and-month results reporting the counts
\* given, the second part omitted when its count is 0.
MonthDayText(m, d, short) ==
    IF d = 0 THEN Counted(m, "month", "mo", short)
    ELSE Counted(m, "month", "mo", short) \o ", " \o Counted(d, "day", "d", short)
YearMonthText(y, m, short) ==
    IF m = 0 THEN Counted(y, "year", "yr", short)
    ELSE Counted(y, "year", "yr", short) \o ", " \o Counted(m, "month", "mo", short)

FormatDurationCalled == cli # Null /\ cli.op = "format_duration"

\* C21: the long form of format_duration(days) is '{days:.1f} days' below 30
\* days; 'M month(s), D day(s)' from 30 to below 365.25 days with
\* M = floor(days / 30.44) and D = round(days mod 30.44), D >= 30 rolled into
\* one more month and the day part omitted when D = 0; 'Y year(s), M month(s)'
\* from 365.25 days with Y = floor(days / 365.25) and
\* M = round((days mod 365.25) / 30.44), M = 12 rolled into one more year and
\* the month part omitted when M = 0; a noun is singular exactly when its
\* count is 1.
C21_LongForm ==
    (FormatDurationCalled /\ ~cli.short) =>
        IF cli.days < 30 * Cent
        THEN cli.out = Fixed1(cli.days) \o " days"
        ELSE IF cli.days * 100 < 36525 * Cent
        THEN IF RoundHalfEven(cli.days % 3044, 100) >= 30
             THEN cli.out = MonthDayText((cli.days \div 3044) + 1, 0, FALSE)
             ELSE cli.out = MonthDayText(cli.days \div 3044,
                                         RoundHalfEven(cli.days % 3044, 100), FALSE)
        ELSE IF RoundHalfEven(cli.days % 36525, 3044) = 12
             THEN cli.out = YearMonthText((cli.days \div 36525) + 1, 0, FALSE)
             ELSE cli.out = YearMonthText(cli.days \div 36525,
                                          RoundHalfEven(cli.days % 36525, 3044), FALSE)

\* A call for 60 days, one month and 29.56 days, returned the rolled-over
\* '2 months'.
C21_Witness ==
    /\ FormatDurationCalled /\ ~cli.short
    /\ cli.days = 60 * Cent
    /\ cli.out = "2 months"

GetC3RatingCalled == cli # Null /\ cli.op = "get_c3_rating"

MaxCount == 40

\* C30: a month-and-day result of format_duration never reports 0 months, 12
\* or more months, or 30 or more days; a year-and-month result never reports
\* 12 or more months.
C30_Normalized ==
    FormatDurationCalled =>
        /\ \A m \in 0..MaxCount, d \in 0..MaxCount :
              cli.out = MonthDayText(m, d, cli.short) => (m >= 1 /\ m < 12 /\ d < 30)
        /\ \A y \in 0..MaxCount, m \in 1..MaxCount :
              cli.out = YearMonthText(y, m, cli.short) => m < 12

\* C24: every call of get_ephemeris that knows its body makes exactly 10
\* updates E <- M + e * sin(E) from E = M, also after E has stopped changing,
\* and returns the position and velocity of the last E.
C24_TenKeplerUpdates ==
    (eph # Null /\ eph.out.exc = "") =>
        /\ Len(eph.kepler) = 11
        /\ eph.kepler[1] = EphEnter(eph.body_name, eph.jd).M
        /\ \A k \in 1..10 :
              eph.kepler[k + 1] =
                  Add(EphEnter(eph.body_name, eph.jd).M,
                      Mul(Scal(EphEnter(eph.body_name, eph.jd).e), Sin(eph.kepler[k])))
        /\ eph.out = EphRotate(EphPerifocal(EphEnter(eph.body_name, eph.jd), eph.kepler[11]))

\* A call for Mars and three dates in which E no longer changed in the
\* fifth update and the loop went on to the tenth.
C24_Witness ==
    /\ eph # Null /\ eph.out.exc = ""
    /\ eph.body_name = "mars"
    /\ eph.jd.shape = <<3>>
    /\ Len(eph.kepler) = 11
    /\ eph.kepler[2] # eph.kepler[1]
    /\ eph.kepler[6] = eph.kepler[5]

\* The elements of the z of the call, and the closed forms and the
\* polynomials of _compute_term_ratio on one number.
ZElems == 1..Len(tr.z.data)
ClosedTerm(z) ==
    IF z > 0 THEN FMul(FNeg(SQRT2), FCos(FMul(FSqrt(z), Dec(5, 1))))
    ELSE FMul(FNeg(SQRT2), FCosh(FMul(FSqrt(0 - z), Dec(5, 1))))
ClosedRatio(z) ==
    IF z > 0
    THEN FDiv(FSub(FSqrt(z),
                   FMul(FMul(2 * One, FSin(FMul(FSqrt(z), Dec(5, 1)))),
                        FCos(FMul(FSqrt(z), Dec(5, 1))))),
              FMul(FMul(2 * One, SQRT2),
                   FMul(FMul(FSin(FMul(FSqrt(z), Dec(5, 1))),
                             FSin(FMul(FSqrt(z), Dec(5, 1)))),
                        FSin(FMul(FSqrt(z), Dec(5, 1))))))
    ELSE FDiv(FSub(FMul(FMul(2 * One, FSinh(FMul(FSqrt(0 - z), Dec(5, 1)))),
                        FCosh(FMul(FSqrt(0 - z), Dec(5, 1)))),
                   FSqrt(0 - z)),
              FMul(FMul(2 * One, SQRT2),
                   FMul(FMul(FSinh(FMul(FSqrt(0 - z), Dec(5, 1))),
                             FSinh(FMul(FSqrt(0 - z), Dec(5, 1)))),
                        FSinh(FMul(FSqrt(0 - z), Dec(5, 1))))))
RECURSIVE Poly(_, _, _, _)
Poly(acc, c, i, z) ==
    IF i > Len(c) THEN acc ELSE Poly(FAdd(FMul(acc, z), c[i]), c, i + 1, z)
PolyTerm(z) == FMul(FNeg(SQRT2), Poly(TermCoeffs[1], TermCoeffs, 2, z))
PolyRatio(z) == FMul(FMul(SQRT2, INV_3), Poly(RatioCoeffs[1], RatioCoeffs, 2, z))

\* Element k went to the closed form, or to the polynomials, and to nothing
\* else.
ByClosedForm(k) ==
    /\ tr.out.large_pos.data[k] # tr.out.large_neg.data[k]
    /\ ~tr.out.is_small.data[k]
    /\ tr.out.term.data[k] = ClosedTerm(tr.z.data[k])
    /\ tr.out.ratio.data[k] = ClosedRatio(tr.z.data[k])
ByPolynomial(k) ==
    /\ ~tr.out.large_pos.data[k] /\ ~tr.out.large_neg.data[k]
    /\ tr.out.is_small.data[k]
    /\ tr.out.term.data[k] = PolyTerm(tr.z.data[k])
    /\ tr.out.ratio.data[k] = PolyRatio(tr.z.data[k])
ByConstant(k) ==
    /\ ~tr.out.large_pos.data[k] /\ ~tr.out.large_neg.data[k]
    /\ ~tr.out.is_small.data[k]
    /\ tr.out.term.data[k] = FNeg(SQRT2)
    /\ tr.out.ratio.data[k] = FMul(SQRT2, INV_3)

\* C23 as stated: an element z = 0 gets the constants -sqrt(2) and sqrt(2)/3
\* and enters neither the polynomial nor a closed-form path; every other
\* element goes to the closed form where |z| >= 0.1 and to the polynomial
\* where 0 < |z| < 0.1.
C23_ZeroBypassesPolynomial ==
    tr # Null =>
        \A k \in ZElems :
            /\ tr.z.data[k] = 0 => ByConstant(k)
            /\ (~IsNaN(tr.z.data[k]) /\ Abs(tr.z.data[k]) >= Seam) => ByClosedForm(k)
            /\ (tr.z.data[k] # 0 /\ Abs(tr.z.data[k]) < Seam) => ByPolynomial(k)

\* C23 as the code has it: every element goes to one regime, the closed
\* form where |z| >= 0.1, both seams included, and the polynomials where
\* |z| < 0.1, z = 0 included, for which they return -sqrt(2) and
\* sqrt(2) * (1/3); an element alone gets what it gets in an array.
C23_TwoRegimes ==
    tr # Null =>
        /\ \A k \in ZElems :
              /\ (~IsNaN(tr.z.data[k]) /\ Abs(tr.z.data[k]) >= Seam) => ByClosedForm(k)
              /\ (~IsNaN(tr.z.data[k]) /\ Abs(tr.z.data[k]) < Seam) => ByPolynomial(k)
              /\ tr.z.data[k] = 0 =>
                    /\ tr.out.term.data[k] = FNeg(SQRT2)
                    /\ tr.out.ratio.data[k] = FMul(SQRT2, INV_3)
        /\ tr.i # 0 =>
              /\ tr.single.term.data[1] = tr.out.term.data[tr.i]
              /\ tr.single.ratio.data[1] = tr.out.ratio.data[tr.i]

\* A call for the array (0, -0.1): the polynomials for the first element,
\* the closed form for the second, and the first element then by itself.
C23_Witness ==
    /\ tr # Null
    /\ tr.z = Arr(<<2>>, <<0, 0 - Seam>>)
    /\ ByPolynomial(1)
    /\ ByClosedForm(2)
    /\ tr.i = 1

\* Element k of the locals f was rolled back by the pass that left f: its
\* new time of flight was NaN and lines 312-317 restored z1 and t1.
RolledBack(f, k) ==
    /\ ~f.brk
    /\ AnyTrue(f.nan_mask_sub)
    /\ f.full_nan_mask.data[k]

\* C25: an element that was rolled back and has not converged is moved again
\* by the secant step of the next pass: its z1 changes, so the rollback does
\* not leave it on a null step.
C25_RolledBackStillMoves ==
    [][(pc = "loop" /\ pc' = "loop" /\ iter > 0 /\ iter' = iter + 1) =>
          \A k \in Elems :
              (RolledBack(frame, k) /\ frame'.active.data[k]) =>
                  frame'.z1.data[k] # frame.z1.data[k]]_vars

\* Element k is marked converged at the start of the pass that the locals f
\* enter: it was marked before, or its |t1 - dt| is below tol now.
MarkedAtStart(f, k) == f.converged.data[k] \/ MeetsTol(f, k)

\* C26: the loop makes at most max_iter passes and is left after the last
\* one or by the break; a pass breaks exactly when every element is marked
\* converged at its start; a pass that does not break evaluates the time of
\* flight of the elements not marked, and of no other, and leaves the marked
\* ones as they were.
C26_LoopHalts ==
    [][/\ IsPass =>
            /\ iter' <= frame.max_iter
            /\ frame'.brk <=> \A k \in Elems : MarkedAtStart(frame, k)
            /\ ~frame'.brk =>
                  /\ Size(frame'.t_val_a) =
                         Cardinality({k \in Elems : ~MarkedAtStart(frame, k)})
                  /\ \A k \in Elems :
                        MarkedAtStart(frame, k) => SameState(frame, frame', k)
       /\ (pc = "loop" /\ pc' = "done") =>
            /\ frame.brk \/ iter = frame.max_iter
            /\ iter <= frame.max_iter]_vars

\* A pass of a call for two elements of which one was marked converged: the
\* loop went on and the pass evaluated the other element only.
C26_Witness ==
    /\ pc = "loop"
    /\ iter > 0 /\ iter <= frame.max_iter
    /\ ~frame.brk
    /\ Len(frame.dt.data) = 2
    /\ Cardinality({k \in Elems : frame.converged.data[k]}) = 1
    /\ Size(frame.t_val_a) = 1
\* The datetimes of whole-day precision: 00:00:00 and 12:00:00.
WholeDay(date) == date.hour \in {0, 12} /\ date.minute = 0

\* C29: date_from_jd(jd_from_date(d)) is d for every datetime d at 00:00:00
\* or 12:00:00, and no other such datetime has the Julian date of d.
C29_RoundTrip ==
    (cal # Null /\ WholeDay(cal.date)) =>
        /\ cal.back # Null => cal.back = cal.date
        /\ \A d \in Datetimes :
              (d.day <= DaysIn(d.year, d.month) /\ WholeDay(d) /\ d # cal.date) =>
                  JdFromDate(d) # cal.jd

\* The writes that are a final status line.
StatusLines == {"cancelled", "failed", "success", "done"}

\* C28: on a TTY, once __exit__ has returned the thread of _spin has ended,
\* and no frame is ever written after a status line; off a TTY the thread is
\* never started and never joined and writes no frame; and the exception of
\* the body, if any, is raised again after __exit__.
C28_SpinnerStops ==
    spin # Null =>
        /\ (spin.is_tty /\ spin.main = "returned") =>
              spin.started /\ spin.joined /\ spin.thread = "done"
        /\ \A j \in 1..Len(spin.stdout), k \in 1..Len(spin.stdout) :
              (spin.stdout[j] \in StatusLines /\ spin.stdout[k] = "frame") => k < j
        /\ ~spin.is_tty =>
              /\ ~spin.started /\ ~spin.joined /\ spin.thread = "new"
              /\ \A k \in 1..Len(spin.stdout) : spin.stdout[k] # "frame"
        /\ spin.main = "returned" =>
              /\ spin.returned \in {"False", "None"}
              /\ spin.raised = spin.exc_type

\* On a TTY a body ended by KeyboardInterrupt after two frames or more:
\* __exit__ has returned, the thread has ended, the last write is the
\* status line and the interrupt is raised again.
C28_Witness ==
    /\ spin # Null
    /\ spin.is_tty
    /\ spin.main = "returned"
    /\ spin.thread = "done"
    /\ spin.exc_type = "KeyboardInterrupt" /\ spin.raised = "KeyboardInterrupt"
    /\ FramesWritten(spin) >= 2
    /\ spin.stdout[Len(spin.stdout)] = "cancelled"

\* The path lies in the working directory the call started in.
UnderCwd(path) ==
    /\ Len(path) >= Len(RealCwd(race.before))
    /\ SubSeq(path, 1, Len(RealCwd(race.before))) = RealCwd(race.before)

\* C27: beside a process that replaces a name of the filename by a symbolic
\* link at any moment of the call, write_vtp and plot_porkchop leave every
\* file outside the working directory as it was and create none there.
C27_NoWriteOutsideUnderRace ==
    race # Null =>
        \A path \in DOMAIN race.disk.files :
            ~UnderCwd(path) =>
                /\ path \in DOMAIN race.before.files
                /\ race.disk.files[path] = race.before.files[path]

====
